---- MODULE Spec2Model ----
(***************************************************************************)
(* Model of the route-planning engine of optimal-path-finder               *)
(* (src/app/services/pathfinding_service.py, class PathfindingService).    *)
(*                                                                         *)
(* A Point is the pair <<x, y>> (x the row, y the column, both 0-based as  *)
(* in the code).  A grid is a sequence of rows, a row a sequence of cell   *)
(* values (0 free, 1 obstacle); the code's grid[x][y] is grid[x+1][y+1]    *)
(* here, sequences being 1-based.  A value a method returns is a record    *)
(* [kind, path]: kind "path" for a returned list, "none" for None and      *)
(* "raise" for an exception that leaves the method.                        *)
(***************************************************************************)
EXTENDS Integers, Sequences, FiniteSets, TLC

\* ------------------------------------------------------------------------
\* Bounds of the model.
\* ------------------------------------------------------------------------
\* Grids searched by direct _a_star calls have SearchRows x SearchCols cells.
SearchRows == 3
SearchCols == 3
\* At most MaxObstacles cells of a searched grid are obstacles.
MaxObstacles == 3
\* A planning request names at most MaxWaypoints pickup points.
MaxWaypoints == 2
\* The dispatch of find_optimal_path is exercised with 0..MaxCount pickup points.
MaxCount == 12
\* At most MaxCalls calls of find_optimal_path or _a_star are made on one
\* service.
MaxCalls == 2
\* At most MaxRequests requests are sent to the route.
MaxRequests == 2
\* A cache that is not empty when the first call is made has room for at
\* most Headroom more entries.
Headroom == 2
\* The grids of the entries of such a cache have one row of FillerCols cells.
FillerCols == 11
\* A call of _multi_target_bfs has at most MaxTargets targets.
MaxTargets == 2
\* MaxCallers calls of _a_star run at once on one service.
MaxCallers == 2
\* MaxSavers save_product requests are in flight at once.
MaxSavers == 2

\* ------------------------------------------------------------------------
\* Values.
\* ------------------------------------------------------------------------
ReturnNone == [kind |-> "none", path |-> <<>>]
ReturnRaise == [kind |-> "raise", path |-> <<>>]
ReturnPath(p) == [kind |-> "path", path |-> p]

\* `not value` of Python, for a value that is None or a list.
IsFalsy(r) == r.kind = "none" \/ (r.kind = "path" /\ r.path = <<>>)

\* came_from[start] is None in the code; NoPoint stands for that None.
NoPoint == <<-1, -1>>

Abs(n) == IF n < 0 THEN -n ELSE n

NumRows(grid) == Len(grid)
NumCols(grid) == Len(grid[1])
CellAt(grid, x, y) == grid[x + 1][y + 1]

\* _manhattan_distance
ManhattanDistance(p1, p2) == Abs(p1[1] - p2[1]) + Abs(p1[2] - p2[2])

\* directions = [(0, 1), (1, 0), (0, -1), (-1, 0)]  (Right, Down, Left, Up)
Directions == << <<0, 1>>, <<1, 0>>, <<0, -1>>, <<-1, 0>> >>

\* Mutant of IsOpen: the obstacle test is forgotten.
IsOpenBoundsOnly(grid, rows, cols, x, y) ==
  /\ 0 <= x /\ x < rows
  /\ 0 <= y /\ y < cols

\* The bounds-and-free test of _get_neighbors and _multi_target_bfs.
IsOpen(grid, rows, cols, x, y) ==
  /\ 0 <= x /\ x < rows
  /\ 0 <= y /\ y < cols
  /\ CellAt(grid, x, y) = 0

\* The subsequence of s whose elements satisfy the test, order kept.
RECURSIVE OpenOnly(_, _, _, _)
OpenOnly(grid, rows, cols, s) ==
  IF s = <<>> THEN <<>>
  ELSE LET p == Head(s)
           rest == OpenOnly(grid, rows, cols, Tail(s))
       IN IF IsOpen(grid, rows, cols, p[1], p[2]) THEN <<p>> \o rest ELSE rest

\* _get_neighbors: the valid neighbours of point, in direction order.
GetNeighbors(point, grid, rows, cols) ==
  OpenOnly(grid, rows, cols,
           [i \in 1..4 |-> <<point[1] + Directions[i][1], point[2] + Directions[i][2]>>])

\* ------------------------------------------------------------------------
\* _a_star
\* ------------------------------------------------------------------------
\* self.max_cache_size
MaxCacheSize == 1000

\* cache_key = (tuple(tuple(row) for row in grid), (start.x, start.y), (end.x, end.y))
\* Mutant of CacheKey: start and end change places.
CacheKeySwapped(grid, start, end) == <<grid, end, start>>

\* Mutant of CacheKey: the grid is left out of the key.
CacheKeyNoGrid(grid, start, end) == <<start, end>>

CacheKey(grid, start, end) == <<grid, start, end>>

\* Tuple order of heapq on (priority, index, point): index is unique among
\* the entries of one search, so the point is never compared.
HeapLess(a, b) == a[1] < b[1] \/ (a[1] = b[1] /\ a[2] < b[2])

\* Mutant of HeapPop: the largest entry is taken.
HeapPopLargest(frontier) ==
  CHOOSE e \in frontier : \A f \in frontier : f = e \/ HeapLess(f, e)

\* Mutant of HeapPop: the entry pushed last is taken, whatever its priority.
HeapPopNewest(frontier) ==
  CHOOSE e \in frontier : \A f \in frontier : f[2] <= e[2]

\* heapq.heappop: the smallest entry of the frontier.
HeapPop(frontier) ==
  CHOOSE e \in frontier : \A f \in frontier : f = e \/ HeapLess(e, f)

\* The state of a search before its first loop iteration (lines 95-98).
AStarInit(start) ==
  [frontier    |-> {<<0, 0, start>>},
   came_from   |-> (start :> NoPoint),
   cost_so_far |-> (start :> 0),
   index       |-> 0,
   done        |-> FALSE]

\* The test of line 111 on a neighbour.
Improves(st, next_point, new_cost) ==
  next_point \notin DOMAIN st.cost_so_far \/ new_cost < st.cost_so_far[next_point]

\* The body of the for loop (lines 108-116) for one neighbour.
Relax(st, current, next_point, end) ==
  LET new_cost == st.cost_so_far[current] + 1
      priority == new_cost + ManhattanDistance(next_point, end)
  IN IF Improves(st, next_point, new_cost)
     THEN [st EXCEPT !.cost_so_far = (next_point :> new_cost) @@ @,
                     !.index = @ + 1,
                     !.frontier = @ \cup {<<priority, st.index + 1, next_point>>},
                     !.came_from = (next_point :> current) @@ @]
     ELSE st

RECURSIVE RelaxAll(_, _, _, _)
RelaxAll(st, current, neighbors, end) ==
  IF neighbors = <<>> THEN st
  ELSE CHOOSE left \in { RelaxAll(next, current, Tail(neighbors), end) :
                          next \in {Relax(st, current, Head(neighbors), end)} } : TRUE

\* Lines 102-116 for the popped entry: stop on end, else relax every
\* neighbour of its point.
AStarVisit(grid, rows, cols, end, st, entry) ==
  IF entry[3] = end
  THEN [st EXCEPT !.frontier = @ \ {entry}, !.done = TRUE]
  ELSE RelaxAll([st EXCEPT !.frontier = @ \ {entry}], entry[3],
                GetNeighbors(entry[3], grid, rows, cols), end)

\* One iteration of the while loop (lines 101-116).
AStarIter(grid, rows, cols, end, st) ==
  CHOOSE left \in { AStarVisit(grid, rows, cols, end, st, entry) :
                     entry \in {HeapPop(st.frontier)} } : TRUE

\* The while loop (lines 100-116).  The state an iteration leaves is bound
\* as a value before the next one starts, so that it is computed once.
RECURSIVE AStarLoop(_, _, _, _, _)
AStarLoop(grid, rows, cols, end, st) ==
  IF st.done \/ st.frontier = {} THEN st
  ELSE CHOOSE left \in { AStarLoop(grid, rows, cols, end, next) :
                          next \in {AStarIter(grid, rows, cols, end, st)} } : TRUE

\* The reconstruction loop (lines 122-126), from current_tuple with the
\* points collected so far.
RECURSIVE WalkBack(_, _, _)
WalkBack(came_from, current_tuple, path) ==
  IF current_tuple \notin DOMAIN came_from THEN path
  ELSE LET next_tuple == came_from[current_tuple]
       IN IF next_tuple = NoPoint THEN Append(path, current_tuple)
          ELSE WalkBack(came_from, next_tuple, Append(path, current_tuple))

\* list(reversed(path))
Reversed(s) == [i \in 1..Len(s) |-> s[Len(s) + 1 - i]]

\* Lines 128-135 without the cache: the reversed path when it leads back
\* to start, else None.
AStarResult(path, start) ==
  IF path # <<>> /\ path[Len(path)] = start
  THEN ReturnPath(Reversed(path))
  ELSE ReturnNone

\* The search of _a_star without its cache (lines 94-135): the returned value.
AStarCompute(grid, start, end) ==
  CHOOSE returned \in
    { AStarResult(path, start) :
        path \in { WalkBack(st.came_from, end, <<>>) :
                     st \in {AStarLoop(grid, NumRows(grid), NumCols(grid), end,
                                       AStarInit(start))} } } : TRUE

\* Mutant of CacheStore: a full cache still takes the result.
CacheStoreInclusive(cache, key, result) ==
  IF Cardinality(DOMAIN cache) <= MaxCacheSize THEN (key :> result) @@ cache ELSE cache

\* Mutant of CacheStore: a full cache gives up an entry for the result.
CacheStoreEvict(cache, key, result) ==
  IF Cardinality(DOMAIN cache) < MaxCacheSize
  THEN (key :> result) @@ cache
  ELSE (key :> result)
         @@ [k \in DOMAIN cache \ {CHOOSE k \in DOMAIN cache : TRUE} |-> cache[k]]

\* The store of lines 131-132.
CacheStore(cache, key, result) ==
  IF Cardinality(DOMAIN cache) < MaxCacheSize THEN (key :> result) @@ cache ELSE cache

\* Mutant of AStarMiss: the path is returned only where it is stored.
AStarMissStoredOnly(cache, key, r) ==
  IF r.kind = "path" /\ Cardinality(DOMAIN cache) < MaxCacheSize
  THEN [result |-> r, cache |-> CacheStore(cache, key, r.path)]
  ELSE [result |-> ReturnNone, cache |-> cache]

\* Lines 128-135 for the computed value r: a path is stored and returned,
\* None is returned and not stored.
AStarMiss(cache, key, r) ==
  IF r.kind = "path"
  THEN [result |-> r, cache |-> CacheStore(cache, key, r.path)]
  ELSE [result |-> r, cache |-> cache]

\* _a_star: the returned value and the cache it leaves.
AStar(cache, grid, start, end) ==
  IF CacheKey(grid, start, end) \in DOMAIN cache
  THEN [result |-> ReturnPath(cache[CacheKey(grid, start, end)]), cache |-> cache]
  ELSE CHOOSE returned \in { AStarMiss(cache, CacheKey(grid, start, end), r) :
                              r \in {AStarCompute(grid, start, end)} } : TRUE

\* The empty dict of __init__.
EmptyCache == [k \in {} |-> <<>>]

\* ------------------------------------------------------------------------
\* Leg stitching (the "avoid duplicates" branches of every strategy).
\* ------------------------------------------------------------------------
\* Mutant of Stitch: the segment is always appended in full.
StitchKeepJunction(path, segment) == path \o segment

\* Mutant of Stitch: the first point of the segment is always dropped.
StitchDropFirst(path, segment) == path \o Tail(segment)

\* if path and path[-1] == segment[0]: path.extend(segment[1:])
\* else: path.extend(segment)
Stitch(path, segment) ==
  IF path # <<>> /\ path[Len(path)] = segment[1]
  THEN path \o Tail(segment)
  ELSE path \o segment

\* ------------------------------------------------------------------------
\* _multi_target_bfs and _create_distance_matrix
\* ------------------------------------------------------------------------
EmptyPaths == [k \in {} |-> <<>>]

\* queue, visited, found_paths and remaining_targets before the loop
\* (lines 210-213); visited[start] is None in the code.
BfsInit(start, targets) ==
  [queue |-> <<start>>,
   visited |-> (start :> NoPoint),
   found_paths |-> EmptyPaths,
   remaining_targets |-> targets]

\* The path reconstruction of lines 220-225: from curr back to the source.
RECURSIVE BfsWalkBack(_, _, _)
BfsWalkBack(visited, curr, path) ==
  IF curr = NoPoint THEN path
  ELSE BfsWalkBack(visited, visited[curr], Append(path, curr))

\* Lines 218-226: resolve current when it is a remaining target.
BfsResolve(st, current) ==
  IF current \in st.remaining_targets
  THEN [st EXCEPT
          !.found_paths = (current :> Reversed(BfsWalkBack(st.visited, current, <<>>))) @@ @,
          !.remaining_targets = @ \ {current}]
  ELSE st

\* Lines 229-234 for the neighbours still to look at.
RECURSIVE BfsExplore(_, _, _, _, _, _)
BfsExplore(grid, rows, cols, st, current, dirs) ==
  IF dirs = <<>> THEN st
  ELSE LET new_x == current[1] + Head(dirs)[1]
           new_y == current[2] + Head(dirs)[2]
           fresh == /\ IsOpen(grid, rows, cols, new_x, new_y)
                    /\ <<new_x, new_y>> \notin DOMAIN st.visited
           st2 == IF fresh
                  THEN [st EXCEPT !.visited = (<<new_x, new_y>> :> current) @@ @,
                                  !.queue = Append(@, <<new_x, new_y>>)]
                  ELSE st
       IN BfsExplore(grid, rows, cols, st2, current, Tail(dirs))

\* Mutant of BfsIter: the queue is popped at its end.
BfsIterLifo(grid, rows, cols, st) ==
  LET current == st.queue[Len(st.queue)]
      popped == [st EXCEPT !.queue = SubSeq(@, 1, Len(@) - 1)]
  IN BfsExplore(grid, rows, cols, BfsResolve(popped, current), current, Directions)

\* One iteration of the while loop (lines 216-234).
BfsIter(grid, rows, cols, st) ==
  LET current == Head(st.queue)
      popped == [st EXCEPT !.queue = Tail(@)]
  IN BfsExplore(grid, rows, cols, BfsResolve(popped, current), current, Directions)

\* while queue and remaining_targets
RECURSIVE BfsLoop(_, _, _, _)
BfsLoop(grid, rows, cols, st) ==
  IF st.queue = <<>> \/ st.remaining_targets = {} THEN st
  ELSE CHOOSE left \in { BfsLoop(grid, rows, cols, next) :
                          next \in {BfsIter(grid, rows, cols, st)} } : TRUE

\* _multi_target_bfs: the mapping target -> path of the targets found.
MultiTargetBfs(grid, start, targets) ==
  BfsLoop(grid, NumRows(grid), NumCols(grid), BfsInit(start, targets)).found_paths

\* The set of the elements of a sequence.
Range(s) == {s[i] : i \in 1..Len(s)}

\* _create_distance_matrix.  The code builds a defaultdict that gets a key
\* for a source only once a path from it is stored; every later read of it
\* is either a defaultdict read (a missing source reads as the empty dict)
\* or the test of line 296, which a source with no entry fails either way.
\* So the matrix is modelled with a (possibly empty) row for every source.
CreateDistanceMatrix(grid, points) ==
  [start_point \in Range(points) |->
     MultiTargetBfs(grid, start_point, Range(points) \ {start_point})]

\* distance_matrix[current] of a defaultdict(dict).
MatrixRow(distance_matrix, current) ==
  IF current \in DOMAIN distance_matrix THEN distance_matrix[current] ELSE EmptyPaths

\* ------------------------------------------------------------------------
\* _nearest_neighbor_with_matrix and _balanced_path (Matrix-Heuristic)
\* ------------------------------------------------------------------------
\* The order of the keys of line 283: len(distance_matrix[current][p]) when
\* p is in the row, float('inf') otherwise.
MatrixKeyLeq(row, p, q) ==
  \/ q \notin DOMAIN row
  \/ (p \in DOMAIN row /\ Len(row[p]) <= Len(row[q]))

\* The values min(unvisited, key=...) can return: the first element of
\* least key in the iteration order of a Python set, which the language
\* leaves to the implementation, so any element of least key.
MatrixNearest(row, unvisited) ==
  {p \in unvisited : \A q \in unvisited : MatrixKeyLeq(row, p, q)}

\* Lines 295-303: the final segment and the returned value.
MatrixFinish(distance_matrix, current, end_point, path) ==
  LET row == MatrixRow(distance_matrix, current)
      full == IF current \in DOMAIN distance_matrix /\ end_point \in DOMAIN row
              THEN Stitch(path, row[end_point])
              ELSE path
  IN IF full # <<>> THEN ReturnPath(full) ELSE ReturnNone

\* The while loop of lines 280-293 followed by lines 295-303: the set of
\* values the method can return, or the KeyError of line 286.
RECURSIVE MatrixLoop(_, _, _, _, _)
MatrixLoop(distance_matrix, current, end_point, unvisited, path) ==
  IF unvisited = {}
  THEN {MatrixFinish(distance_matrix, current, end_point, path)}
  ELSE LET row == MatrixRow(distance_matrix, current)
       IN UNION { IF nearest \in DOMAIN row
                  THEN MatrixLoop(distance_matrix, nearest, end_point,
                                  unvisited \ {nearest}, Stitch(path, row[nearest]))
                  ELSE {ReturnRaise}
                  : nearest \in MatrixNearest(row, unvisited) }

\* _nearest_neighbor_with_matrix
NearestNeighborWithMatrix(distance_matrix, start, end, pickup_points) ==
  MatrixLoop(distance_matrix, start, end, Range(pickup_points), <<>>)

\* _balanced_path: the values it can return; it never touches the cache.
BalancedPath(cache, grid, start, end, pickup_points) ==
  LET all_points == <<start>> \o pickup_points \o <<end>>
      distance_matrix == CreateDistanceMatrix(grid, all_points)
  IN { [result |-> r, cache |-> cache] :
         r \in NearestNeighborWithMatrix(distance_matrix, start, end, pickup_points) }

\* min(unvisited, key=...) in a process whose sets of points iterate in the
\* order of the sequence iteration: the first element of least key.
MatrixNearestIn(iteration, row, unvisited) ==
  iteration[CHOOSE i \in 1..Len(iteration) :
              /\ iteration[i] \in MatrixNearest(row, unvisited)
              /\ \A j \in 1..(i - 1) : iteration[j] \notin MatrixNearest(row, unvisited)]

\* Lines 280-303 in such a process: the value returned, or the KeyError.
RECURSIVE MatrixLoopIn(_, _, _, _, _, _)
MatrixStepIn(iteration, distance_matrix, end_point, unvisited, path, row, nearest) ==
  IF nearest \in DOMAIN row
  THEN MatrixLoopIn(iteration, distance_matrix, nearest, end_point,
                    unvisited \ {nearest}, Stitch(path, row[nearest]))
  ELSE ReturnRaise
MatrixLoopIn(iteration, distance_matrix, current, end_point, unvisited, path) ==
  IF unvisited = {}
  THEN MatrixFinish(distance_matrix, current, end_point, path)
  ELSE MatrixStepIn(iteration, distance_matrix, end_point, unvisited, path,
                    MatrixRow(distance_matrix, current),
                    MatrixNearestIn(iteration, MatrixRow(distance_matrix, current), unvisited))

\* _balanced_path in such a process: the value returned, or the KeyError.
BalancedPathIn(iteration, grid, start, end, pickup_points) ==
  MatrixLoopIn(iteration, CreateDistanceMatrix(grid, <<start>> \o pickup_points \o <<end>>),
               start, end, Range(pickup_points), <<>>)

\* ------------------------------------------------------------------------
\* _nearest_neighbor_path and _fast_path (Direct-Heuristic)
\* ------------------------------------------------------------------------
\* Mutant of DirectNearestIndex: the last element of least key is taken.
DirectNearestIndexLast(current, remaining) ==
  CHOOSE i \in 1..Len(remaining) :
    /\ \A j \in 1..Len(remaining) :
         ManhattanDistance(current, remaining[i]) <= ManhattanDistance(current, remaining[j])
    /\ \A j \in (i + 1)..Len(remaining) :
         ManhattanDistance(current, remaining[j]) > ManhattanDistance(current, remaining[i])

\* min(remaining, key=manhattan from current): the index of the first
\* element of least key in list order.
DirectNearestIndex(current, remaining) ==
  CHOOSE i \in 1..Len(remaining) :
    /\ \A j \in 1..Len(remaining) :
         ManhattanDistance(current, remaining[i]) <= ManhattanDistance(current, remaining[j])
    /\ \A j \in 1..(i - 1) :
         ManhattanDistance(current, remaining[j]) > ManhattanDistance(current, remaining[i])

\* Mutant of RemoveAt: the i-th element and all after it are dropped.
RemoveFromOn(s, i) == SubSeq(s, 1, i - 1)

\* Mutant of RemoveAt: nothing is removed.
RemoveNone(s, i) == s

\* s without its i-th element (list.remove of the first equal element).
RemoveAt(s, i) == SubSeq(s, 1, i - 1) \o SubSeq(s, i + 1, Len(s))

\* Lines 262-271 for the final segment the search returned.
DirectFinish(path, final) ==
  IF ~IsFalsy(final.result)
  THEN [result |-> ReturnPath(Stitch(path, final.result.path)), cache |-> final.cache]
  ELSE [result |-> ReturnNone, cache |-> final.cache]

\* The while loop of lines 244-260 followed by lines 262-271; DirectStep is
\* lines 250-260 for the nearest point remaining[i] and the segment leg the
\* search returned for it.
RECURSIVE DirectLoop(_, _, _, _, _, _)
RECURSIVE DirectStep(_, _, _, _, _, _)
DirectStep(grid, end, remaining, path, i, leg) ==
  IF IsFalsy(leg.result)
  THEN [result |-> ReturnNone, cache |-> leg.cache]
  ELSE DirectLoop(leg.cache, grid, remaining[i], end, RemoveAt(remaining, i),
                  Stitch(path, leg.result.path))

DirectLoop(cache, grid, current, end, remaining, path) ==
  IF remaining = <<>>
  THEN DirectFinish(path, AStar(cache, grid, current, end))
  ELSE DirectStep(grid, end, remaining, path, DirectNearestIndex(current, remaining),
                  AStar(cache, grid, current,
                        remaining[DirectNearestIndex(current, remaining)]))

\* _nearest_neighbor_path
NearestNeighborPath(cache, grid, start, end, pickup_points) ==
  DirectLoop(cache, grid, start, end, pickup_points, <<>>)

\* _fast_path
FastPath(cache, grid, start, end, pickup_points) ==
  NearestNeighborPath(cache, grid, start, end, pickup_points)

\* ------------------------------------------------------------------------
\* _optimal_path (Exhaustive)
\* ------------------------------------------------------------------------
\* The waypoint count above which _optimal_path falls back (line 149).
OptimalLimit == 8

\* itertools.permutations(s): every ordering of the positions of s, in
\* lexicographic order of the positions.
RECURSIVE ItertoolsPermutations(_)
RECURSIVE ItertoolsPermutationsFrom(_, _)
ItertoolsPermutations(s) ==
  IF s = <<>> THEN << <<>> >> ELSE ItertoolsPermutationsFrom(s, 1)
ItertoolsPermutationsFrom(s, i) ==
  IF i > Len(s) THEN <<>>
  ELSE LET rest == ItertoolsPermutations(RemoveAt(s, i))
       IN [k \in 1..Len(rest) |-> <<s[i]>> \o rest[k]] \o ItertoolsPermutationsFrom(s, i + 1)

\* The inner for loop (lines 163-176) over the rest of one pickup order;
\* ChainStep is lines 165-176 for the segment leg the search returned.
RECURSIVE ChainLegs(_, _, _, _, _, _)
RECURSIVE ChainStep(_, _, _, _, _, _)
ChainStep(grid, current_point, order, current_path, total_distance, leg) ==
  IF IsFalsy(leg.result)
  THEN [valid_path |-> FALSE, current_path |-> current_path,
        total_distance |-> total_distance, current_point |-> current_point,
        cache |-> leg.cache]
  ELSE ChainLegs(leg.cache, grid, Head(order), Tail(order),
                 Stitch(current_path, leg.result.path),
                 total_distance + Len(leg.result.path) - 1)

ChainLegs(cache, grid, current_point, order, current_path, total_distance) ==
  IF order = <<>>
  THEN [valid_path |-> TRUE, current_path |-> current_path,
        total_distance |-> total_distance, current_point |-> current_point,
        cache |-> cache]
  ELSE ChainStep(grid, current_point, order, current_path, total_distance,
                 AStar(cache, grid, current_point, Head(order)))

\* Mutant of KeepBest: the first order with all legs reachable is kept and
\* never replaced.
KeepFirst(acc, chain, final) ==
  IF ~acc.found
  THEN [found |-> TRUE,
        path |-> Stitch(chain.current_path, final.result.path),
        distance |-> chain.total_distance + Len(final.result.path) - 1,
        cache |-> final.cache]
  ELSE [acc EXCEPT !.cache = final.cache]

\* Mutant of KeepBest: the comparison of line 190 is reversed, so the
\* longest route is kept.
KeepLongest(acc, chain, final) ==
  IF ~acc.found \/ chain.total_distance + Len(final.result.path) - 1 > acc.distance
  THEN [found |-> TRUE,
        path |-> Stitch(chain.current_path, final.result.path),
        distance |-> chain.total_distance + Len(final.result.path) - 1,
        cache |-> final.cache]
  ELSE [acc EXCEPT !.cache = final.cache]

\* Lines 184-192 for a final segment that was found.  acc is
\* [found, path, distance, cache], found FALSE standing for
\* best_path = None and min_distance = float('inf').
KeepBest(acc, chain, final) ==
  IF ~acc.found \/ chain.total_distance + Len(final.result.path) - 1 < acc.distance
  THEN [found |-> TRUE,
        path |-> Stitch(chain.current_path, final.result.path),
        distance |-> chain.total_distance + Len(final.result.path) - 1,
        cache |-> final.cache]
  ELSE [acc EXCEPT !.cache = final.cache]

\* Lines 182-192 for the final segment the search returned.
TryFinal(acc, chain, final) ==
  IF IsFalsy(final.result)
  THEN [acc EXCEPT !.cache = final.cache]
  ELSE KeepBest(acc, chain, final)

\* Lines 178-192 for the chain of legs of one pickup order.
TryChain(acc, grid, end, chain) ==
  IF ~chain.valid_path
  THEN [acc EXCEPT !.cache = chain.cache]
  ELSE TryFinal(acc, chain, AStar(chain.cache, grid, chain.current_point, end))

\* The body of the outer for loop (lines 157-192) for one pickup order.
TryOrder(acc, grid, start, end, pickup_order) ==
  TryChain(acc, grid, end, ChainLegs(acc.cache, grid, start, pickup_order, <<>>, 0))

\* The outer for loop over orders[lo..hi], in order, from accumulator acc.
\* The range is halved so that the fold nests only logarithmically deep, and
\* the (always true) test on left has TLC evaluate the first half before it
\* starts the second.
RECURSIVE TryOrders(_, _, _, _, _, _, _)
RECURSIVE TryOrdersAfter(_, _, _, _, _, _, _)
TryOrdersAfter(left, grid, start, end, orders, lo, hi) ==
  IF left.found \in BOOLEAN
  THEN TryOrders(left, grid, start, end, orders, lo, hi)
  ELSE left

TryOrders(acc, grid, start, end, orders, lo, hi) ==
  IF lo > hi THEN acc
  ELSE IF lo = hi THEN TryOrder(acc, grid, start, end, orders[lo])
  ELSE TryOrdersAfter(TryOrders(acc, grid, start, end, orders, lo, (lo + hi) \div 2),
                      grid, start, end, orders, (lo + hi) \div 2 + 1, hi)

\* return best_path (line 194).
ExhaustiveResult(acc) ==
  [result |-> IF acc.found THEN ReturnPath(acc.path) ELSE ReturnNone,
   cache |-> acc.cache]

\* Lines 153-194 over the orders that permutations() yields.
ExhaustiveOver(cache, grid, start, end, orders) ==
  ExhaustiveResult(
    TryOrders([found |-> FALSE, path |-> <<>>, distance |-> 0, cache |-> cache],
              grid, start, end, orders, 1, Len(orders)))

\* The permutation search of _optimal_path (lines 153-194).
ExhaustiveSearch(cache, grid, start, end, pickup_points) ==
  ExhaustiveOver(cache, grid, start, end, ItertoolsPermutations(pickup_points))

\* A strategy's [result, cache] with the name of the strategy.
Ran(o, name) == [result |-> o.result, cache |-> o.cache, strategy |-> name]

\* _optimal_path: the values it can return, each with the cache it leaves
\* and the strategy that produced it.
OptimalPath(cache, grid, start, end, pickup_points) ==
  IF Len(pickup_points) > OptimalLimit
  THEN { Ran(o, "matrix") : o \in BalancedPath(cache, grid, start, end, pickup_points) }
  ELSE { Ran(ExhaustiveSearch(cache, grid, start, end, pickup_points), "exhaustive") }

\* ------------------------------------------------------------------------
\* find_optimal_path
\* ------------------------------------------------------------------------
\* The waypoint counts of lines 55 and 57.
FastThreshold == 10
BalancedThreshold == 6

\* Mutant of SelectedMethod: the counts are compared with >=.
SelectedMethodInclusive(algorithm, count) ==
  IF algorithm = "fast" \/ count >= FastThreshold THEN "_fast_path"
  ELSE IF algorithm = "balanced" \/ count >= BalancedThreshold THEN "_balanced_path"
  ELSE "_optimal_path"

\* Mutant of SelectedMethod: the two thresholds are exchanged.
SelectedMethodSwapped(algorithm, count) ==
  IF algorithm = "fast" \/ count > BalancedThreshold THEN "_fast_path"
  ELSE IF algorithm = "balanced" \/ count > FastThreshold THEN "_balanced_path"
  ELSE "_optimal_path"

\* Mutant of SelectedMethod: the mode "balanced" is tested before the count
\* that sends a request to _fast_path.
SelectedMethodBalancedFirst(algorithm, count) ==
  IF algorithm = "balanced" THEN "_balanced_path"
  ELSE IF algorithm = "fast" \/ count > FastThreshold THEN "_fast_path"
  ELSE IF count > BalancedThreshold THEN "_balanced_path"
  ELSE "_optimal_path"

\* Lines 55-60: the strategy method find_optimal_path calls.
SelectedMethod(algorithm, count) ==
  IF algorithm = "fast" \/ count > FastThreshold THEN "_fast_path"
  ELSE IF algorithm = "balanced" \/ count > BalancedThreshold THEN "_balanced_path"
  ELSE "_optimal_path"

\* The call of lines 55-60: what the called strategy does, as the set of
\* [result, cache, strategy] it can end with; result.kind = "raise" is an
\* exception leaving the strategy.
RunMethod(method, cache, grid, start, end, pickup_points) ==
  IF method = "_fast_path"
  THEN { Ran(FastPath(cache, grid, start, end, pickup_points), "direct") }
  ELSE IF method = "_balanced_path"
  THEN { Ran(o, "matrix") : o \in BalancedPath(cache, grid, start, end, pickup_points) }
  ELSE OptimalPath(cache, grid, start, end, pickup_points)

RunStrategy(cache, grid, start, end, pickup_points, algorithm) ==
  RunMethod(SelectedMethod(algorithm, Len(pickup_points)),
            cache, grid, start, end, pickup_points)

\* except Exception: return None (lines 67-69).
Caught(r) == IF r.kind = "raise" THEN ReturnNone ELSE r

\* What find_optimal_path does with what the strategy or the search gave
\* it: raw is what that returned or raised, result what the call returns.
Answer(o, name) ==
  [result |-> Caught(o.result), raw |-> o.result, cache |-> o.cache, strategy |-> name]

\* Mutant of FindOptimalPathOutcomes: an empty pickup list goes to the
\* strategies like any other.
FindOptimalPathOutcomesNoDirect(cache, grid, start, end, pickup_points, algorithm) ==
  { Answer(o, o.strategy) :
      o \in RunStrategy(cache, grid, start, end, pickup_points, algorithm) }

\* find_optimal_path: the set of [result, raw, cache, strategy] the call
\* can end with.
FindOptimalPathOutcomes(cache, grid, start, end, pickup_points, algorithm) ==
  IF pickup_points = <<>>
  THEN { Answer(AStar(cache, grid, start, end), "a_star") }
  ELSE { Answer(o, o.strategy) :
           o \in RunStrategy(cache, grid, start, end, pickup_points, algorithm) }

\* The strategy find_optimal_path enters for the request (lines 48-60, 148).
EnteredStrategy(pickup_points, algorithm) ==
  IF pickup_points = <<>> THEN "a_star"
  ELSE IF SelectedMethod(algorithm, Len(pickup_points)) = "_fast_path" THEN "direct"
  ELSE IF SelectedMethod(algorithm, Len(pickup_points)) = "_balanced_path" THEN "matrix"
  ELSE IF Len(pickup_points) > OptimalLimit THEN "matrix"
  ELSE "exhaustive"

\* find_optimal_path on any grid.  On the grid without rows the first search
\* of every strategy raises IndexError at len(grid[0]) (lines 94, 209),
\* which line 67 turns into None; on every other grid of MalformedGrids the
\* searches run as on a rectangle: a cell that is not 0 is not entered
\* (lines 82, 232) and a cell beyond len(grid[0]) is never looked at.
FindOptimalPathAnyGridOutcomes(cache, grid, start, end, pickup_points, algorithm) ==
  IF grid = <<>>
  THEN { [result |-> Caught(ReturnRaise), raw |-> ReturnRaise, cache |-> cache,
          strategy |-> EnteredStrategy(pickup_points, algorithm)] }
  ELSE FindOptimalPathOutcomes(cache, grid, start, end, pickup_points, algorithm)

\* ------------------------------------------------------------------------
\* State: one PathfindingService and the call made on it.
\* ------------------------------------------------------------------------
VARIABLES
  grid,           \* the grid of the call
  start,          \* its start point
  end,            \* its end point
  pickup_points,  \* its pickup points, a sequence
  algorithm,      \* its algorithm string
  cache,          \* self.cache: cache key -> stored path
  strategy,       \* the strategy the call ran ("none" before the call)
  raw,            \* what the strategy returned or raised
  result,         \* what the call returned
  pc,             \* "idle" before the call, "done" after it
  response,       \* what the route find_path answered the request with
  calls,          \* the number of calls or requests made so far
  set_order,      \* for a list of pickup points, the order in which the
                  \* process iterates the set built from it (line 277)
  search,         \* the local variables of the loop that is running
  targets,        \* the targets of a call of _multi_target_bfs
  callers,        \* the planning calls that share the cache, each with its
                  \* position in _a_star
  products,       \* the documents of the products collection
  savers,         \* the save_product requests, each with its position
  grid_data       \* the rows and columns fields of the grid document the
                  \* route find_path reads; its grid field is grid

\* The variables that the calls of one service, one at a time and each in
\* one step, leave alone.
others == <<search, targets, callers, products, savers, grid_data>>

vars == <<grid, start, end, pickup_points, algorithm, cache, strategy, raw, result, pc,
          response, calls, set_order, others>>

\* ------------------------------------------------------------------------
\* Inputs.
\* ------------------------------------------------------------------------
CellsOf(rows, cols) == (0..(rows - 1)) \X (0..(cols - 1))

GridOf(rows, cols, obstacles) ==
  [x \in 1..rows |-> [y \in 1..cols |-> IF <<x - 1, y - 1>> \in obstacles THEN 1 ELSE 0]]

\* Every rows x cols grid of 0/1 cells with at most MaxObstacles obstacles.
GridsOf(rows, cols) ==
  { GridOf(rows, cols, obstacles) :
      obstacles \in {o \in SUBSET CellsOf(rows, cols) : Cardinality(o) <= MaxObstacles} }

\* The in-bounds free cells of a grid: what validate_point of the route
\* (pathfinding_routes.py lines 39-54) lets through for a document whose
\* rows and columns fields are the shape of its grid.
FreeCells(g) ==
  {p \in CellsOf(NumRows(g), NumCols(g)) : CellAt(g, p[1], p[2]) = 0}

\* The sequences of pairwise distinct elements of S of length at most n
\* (validate_unique_points rejects a repeated pickup point).
RECURSIVE DistinctSeqs(_, _)
DistinctSeqs(S, n) ==
  IF n = 0 THEN { <<>> }
  ELSE LET shorter == DistinctSeqs(S, n - 1)
           longest == {q \in shorter : Len(q) = n - 1}
       IN shorter \cup { Append(t[1], t[2]) :
                           t \in {u \in longest \X S : u[2] \notin Range(u[1])} }

\* Every ordering of the points of a sequence.
Orderings(points) ==
  { [i \in 1..Len(points) |-> points[f[i]]] : f \in Permutations(1..Len(points)) }

Algorithms == {"optimal", "balanced", "fast"}

\* Every rows x cols grid of 0/1 cells.
AllGridsOf(rows, cols) ==
  { GridOf(rows, cols, obstacles) : obstacles \in SUBSET CellsOf(rows, cols) }

\* Planning requests are drawn over every grid of 2 rows and 3 columns: the
\* smallest shape in which an obstacle forces a detour, a wall cuts the grid
\* in two, and a nearest pickup point can be the wrong one to visit first.
PlanGrids == AllGridsOf(2, 3)

\* No grid document is read: the service is called directly.
NoDocument == [rows |-> 0, columns |-> 0]

\* No response sent yet.
NoResponse == [status |-> 0, detail |-> "", path |-> <<>>, total_distance |-> 0,
               algorithm_used |-> ""]

\* No loop is running.
NoSearch == [kind |-> "none"]

\* Before the first call: nothing returned, nothing answered.
NotCalled ==
  /\ strategy = "none"
  /\ raw = ReturnNone
  /\ result = ReturnNone
  /\ pc = "idle"
  /\ response = NoResponse
  /\ calls = 0
  /\ search = NoSearch
  /\ targets = {}
  /\ callers = <<>>
  /\ products = <<>>
  /\ savers = <<>>

\* The state of a fresh service (__init__) before a call.  A single call
\* leaves the iteration order of its set free (see MatrixNearest).
Fresh ==
  /\ cache = EmptyCache
  /\ NotCalled
  /\ set_order = <<>>
  /\ grid_data = NoDocument

\* A planning request as the route hands it to the service: start, end and
\* pickup points on free cells, pickup points pairwise distinct.
Init ==
  /\ grid \in PlanGrids
  /\ start \in FreeCells(grid)
  /\ end \in FreeCells(grid)
  /\ pickup_points \in DistinctSeqs(FreeCells(grid), MaxWaypoints)
  /\ algorithm \in Algorithms
  /\ Fresh

\* A direct shortest-path query on a SearchRows x SearchCols grid.
InitSearch ==
  /\ grid \in GridsOf(SearchRows, SearchCols)
  /\ start \in FreeCells(grid)
  /\ end \in FreeCells(grid)
  /\ pickup_points = <<>>
  /\ algorithm = "optimal"
  /\ Fresh

\* A corridor of one row, the start at its left end, count pickup points
\* next to it from left to right and the end on either side of them.
Corridor == GridOf(1, MaxCount + 2, {})
InitSelect ==
  /\ grid = Corridor
  /\ start = <<0, 0>>
  /\ \E count \in 0..MaxCount :
       /\ pickup_points = [i \in 1..count |-> <<0, i>>]
       /\ end \in {<<0, 0>>, <<0, count + 1>>}
  /\ algorithm \in Algorithms \cup {"other"}
  /\ Fresh

\* ------------------------------------------------------------------------
\* Actions.
\* ------------------------------------------------------------------------
\* find_optimal_path(grid, start, end, pickup_points, algorithm)
FindOptimalPath ==
  /\ pc = "idle"
  /\ \E o \in FindOptimalPathOutcomes(cache, grid, start, end, pickup_points, algorithm) :
       /\ result' = o.result
       /\ raw' = o.raw
       /\ cache' = o.cache
       /\ strategy' = o.strategy
  /\ pc' = "done"
  /\ UNCHANGED <<grid, start, end, pickup_points, algorithm, response, calls, set_order, others>>

\* _a_star(grid, start, end) called on its own.
AStarCall ==
  /\ pc = "idle"
  /\ \E o \in {AStar(cache, grid, start, end)} :
       /\ result' = o.result
       /\ raw' = o.result
       /\ cache' = o.cache
  /\ strategy' = "a_star"
  /\ pc' = "done"
  /\ UNCHANGED <<grid, start, end, pickup_points, algorithm, response, calls, set_order, others>>

\* ------------------------------------------------------------------------
\* GridData (models.py): what a grid document must pass to be stored.
\* ------------------------------------------------------------------------
\* validate_grid_dimensions (models.py, lines 31-38): values holds the fields
\* validated before grid.
ValidateGridDimensions(v, values) ==
  IF "rows" \in DOMAIN values /\ "columns" \in DOMAIN values
  THEN IF Len(v) # values.rows THEN "Grid rows must match rows field"
       ELSE IF \E x \in 1..Len(v) : Len(v[x]) # values.columns
            THEN "All grid rows must have the same number of columns"
            ELSE "ok"
  ELSE "ok"

\* validate_grid_values (models.py, lines 40-46).
ValidateGridValues(v) ==
  IF \E x \in 1..Len(v) : \E y \in 1..Len(v[x]) : v[x][y] \notin {0, 1}
  THEN "Grid cells must be 0 (free) or 1 (obstacle)"
  ELSE "ok"

\* GridData(grid=v, rows=rows, columns=columns, ...) is accepted.  grid is
\* declared before rows and columns (lines 24-26), so its validators run
\* while values holds neither of them; rows and columns are within
\* gt=0, le=1000.
GridDataAccepts(v, rows, columns) ==
  /\ ValidateGridDimensions(v, [field \in {} |-> 0]) = "ok"
  /\ ValidateGridValues(v) = "ok"
  /\ rows > 0 /\ rows <= 1000
  /\ columns > 0 /\ columns <= 1000

\* ------------------------------------------------------------------------
\* The route find_path (pathfinding_routes.py).  The grid document is the
\* one the database holds for the request's grid_id, stored by save_grid
\* from a GridData; a request with a bad or unknown grid_id never reaches
\* the service and is not modelled.
\* ------------------------------------------------------------------------
\* request.algorithm = None.
NoAlgorithm == "None"

\* grid_data["grid"][point.x][point.y] of line 45 raises IndexError.
IndexError == "list index out of range"

\* validate_point (lines 39-49): what is wrong with a point, or "ok".  The
\* bounds are the rows and columns fields of the document, the cell is read
\* from its grid field.
ValidatePoint(g, rows, columns, point) ==
  IF point[1] < 0 \/ point[1] >= rows \/ point[2] < 0 \/ point[2] >= columns
  THEN "is outside grid bounds"
  ELSE IF point[1] >= Len(g) \/ point[2] >= Len(g[point[1] + 1])
       THEN IndexError
       ELSE IF g[point[1] + 1][point[2] + 1] = 1 THEN "is on an obstacle" ELSE "ok"

\* Lines 51-54: the index in <<start, end>> \o pickup_points of the first
\* point validate_point raises on, 0 when it accepts them all.
FirstInvalid(g, rows, columns, points) ==
  IF \A i \in 1..Len(points) : ValidatePoint(g, rows, columns, points[i]) = "ok" THEN 0
  ELSE CHOOSE i \in 1..Len(points) :
         /\ ValidatePoint(g, rows, columns, points[i]) # "ok"
         /\ \A j \in 1..(i - 1) : ValidatePoint(g, rows, columns, points[j]) = "ok"

\* The names of lines 51-54: "Start", "End", or the number of the pickup point.
PointName(i) ==
  IF i = 1 THEN <<"Start">> ELSE IF i = 2 THEN <<"End">> ELSE <<"Pickup point", i - 2>>

\* HTTPException(status_code=400, detail=...)
BadRequest(detail) ==
  [status |-> 400, detail |-> detail, path |-> <<>>, total_distance |-> 0,
   algorithm_used |-> ""]

\* Lines 83-85: HTTPException(status_code=500, detail=f"Pathfinding failed: ...")
ServerError(detail) ==
  [status |-> 500, detail |-> detail, path |-> <<>>, total_distance |-> 0,
   algorithm_used |-> ""]

\* The HTTPException of lines 41-49 for the i-th validated point, or the one
\* of line 85 when reading its cell raised.
Rejected(g, rows, columns, points, i) ==
  IF ValidatePoint(g, rows, columns, points[i]) = IndexError
  THEN ServerError(<<"Pathfinding failed", IndexError>>)
  ELSE BadRequest(<<PointName(i), points[i], ValidatePoint(g, rows, columns, points[i])>>)

\* total_distance = len(path) - 1 (line 70).
TotalDistance(path) == Len(path) - 1

\* request.algorithm or "optimal" (line 78).
AlgorithmUsed(alg) == IF alg = NoAlgorithm \/ alg = "" THEN "optimal" ELSE alg

\* Lines 66-79: the answer to a request whose planning call returned r.
Respond(r, alg) ==
  IF IsFalsy(r)
  THEN BadRequest(<<"No valid path found">>)
  ELSE [status |-> 200, detail |-> "", path |-> r.path,
        total_distance |-> TotalDistance(r.path), algorithm_used |-> AlgorithmUsed(alg)]

\* The requests sent to the route: in a corridor whose last cell is an
\* obstacle, count pickup points next to the start and the end right after
\* them (on the obstacle when count = MaxCount), or an end off the grid.
RouteGrid == GridOf(1, MaxCount + 2, {<<0, MaxCount + 1>>})
RouteEnds(count) ==
  {<<0, count + 1>>} \cup (IF count = 0 THEN {<<0, MaxCount + 2>>} ELSE {})

\* The document whose rows and columns fields are the shape of RouteGrid.
RouteDocument == [grid |-> RouteGrid, rows |-> 1, columns |-> MaxCount + 2]

\* The stored documents: RouteDocument; the same grid with a columns field
\* of 1 or of one more than its row holds; the grid without rows.  They are
\* the ones GridData accepts among these and two it refuses (a rows field of
\* 0, a cell of 2).
RouteDocuments ==
  { d \in { [grid |-> RouteGrid, rows |-> r, columns |-> c] :
              r \in {0, 1}, c \in {1, MaxCount + 2, MaxCount + 3} }
           \cup { [grid |-> <<>>, rows |-> 1, columns |-> 1],
                  [grid |-> << <<0, 2>> >>, rows |-> 1, columns |-> 2] } :
      GridDataAccepts(d.grid, d.rows, d.columns) }

\* The requests without pickup points are sent for every stored document,
\* the others for RouteDocument.
RouteRequests ==
  { [grid |-> q[2].grid, rows |-> q[2].rows, columns |-> q[2].columns,
     start |-> <<0, 0>>, end |-> q[1][2],
     pickup_points |-> [i \in 1..q[1][1] |-> <<0, i>>], algorithm |-> q[1][3]] :
      q \in { u \in ((0..MaxCount) \X CellsOf(1, MaxCount + 3)
                         \X (Algorithms \cup {NoAlgorithm})) \X RouteDocuments :
                 /\ u[1][2] \in RouteEnds(u[1][1])
                 /\ u[2] = RouteDocument \/ u[1][1] = 0 } }

\* The first request, before the route has served any.
InitRoute ==
  /\ \E r \in RouteRequests :
       /\ grid = r.grid
       /\ start = r.start
       /\ end = r.end
       /\ pickup_points = r.pickup_points
       /\ algorithm = r.algorithm
       /\ grid_data = [rows |-> r.rows, columns |-> r.columns]
  /\ cache = EmptyCache
  /\ NotCalled
  /\ set_order = <<>>

\* The route serves the request (lines 38-85): it validates the points,
\* makes a new PathfindingService (line 57), calls find_optimal_path on it
\* and answers.  cache is the cache of the service made last.
FindPath ==
  /\ pc = "idle"
  /\ \E bad \in {FirstInvalid(grid, grid_data.rows, grid_data.columns,
                               <<start, end>> \o pickup_points)} :
       IF bad # 0
       THEN /\ response' = Rejected(grid, grid_data.rows, grid_data.columns,
                                     <<start, end>> \o pickup_points, bad)
            /\ UNCHANGED <<cache, strategy, raw, result>>
       ELSE \E o \in FindOptimalPathOutcomes(EmptyCache, grid, start, end,
                                             pickup_points, algorithm) :
              /\ result' = o.result
              /\ raw' = o.raw
              /\ cache' = o.cache
              /\ strategy' = o.strategy
              /\ response' = Respond(o.result, algorithm)
  /\ pc' = "done"
  /\ UNCHANGED <<grid, start, end, pickup_points, algorithm, calls, set_order, others>>

\* The next request arrives.
NextRequest ==
  /\ pc = "done"
  /\ calls + 1 < MaxRequests
  /\ calls' = calls + 1
  /\ \E r \in RouteRequests :
       /\ grid' = r.grid
       /\ start' = r.start
       /\ end' = r.end
       /\ pickup_points' = r.pickup_points
       /\ algorithm' = r.algorithm
       /\ grid_data' = [rows |-> r.rows, columns |-> r.columns]
  /\ pc' = "idle"
  /\ UNCHANGED <<cache, strategy, raw, result, response, set_order,
                 search, targets, callers, products, savers>>

NextRoute == FindPath \/ NextRequest
SpecRoute == InitRoute /\ [][NextRoute]_vars

\* ------------------------------------------------------------------------
\* One PathfindingService that lives on: calls of find_optimal_path, _a_star
\* and clear_cache one after the other (single-threaded).
\* ------------------------------------------------------------------------
\* The calls are made on the open 2 x 2 grid and on the 2 x 2 grid with an
\* obstacle in (1, 1), from (0, 0) back to it or to the far corner (1, 1)
\* where that is free, with pickup points among Stops; a shortest path from
\* (0, 1) to (1, 0) differs on the two grids.  Two more calls are made on
\* one-row grids: one from (0, 0) to itself, one to a cell behind an
\* obstacle.
ServiceGrids == {GridOf(2, 2, {}), GridOf(2, 2, {<<1, 1>>})}
Stops == << <<0, 1>>, <<1, 0>> >>

\* The grid with one row of FillerCols cells, the first free, the others
\* obstacles where the bits of i are set.
FillerGrid(i) ==
  << [y \in 1..FillerCols |-> IF y = 1 THEN 0 ELSE (i \div (2 ^ (y - 2))) % 2] >>

ServiceRequests ==
  { [grid |-> t[1], start |-> <<0, 0>>, end |-> t[2], pickup_points |-> t[3],
     algorithm |-> t[4]] :
      t \in { u \in ServiceGrids \X {<<0, 0>>, <<1, 1>>}
                        \X DistinctSeqs(Range(Stops), Len(Stops))
                        \X (Algorithms \cup {"other"}) :
                 u[2] \in FreeCells(u[1]) } }
    \cup { [grid |-> FillerGrid(0), start |-> <<0, 0>>, end |-> <<0, 0>>,
            pickup_points |-> <<>>, algorithm |-> "optimal"],
           [grid |-> FillerGrid(1), start |-> <<0, 0>>, end |-> <<0, 2>>,
            pickup_points |-> <<>>, algorithm |-> "optimal"] }

\* The calls made on a service whose cache is nearly full: those of
\* ServiceRequests in the three modes, with no pickup point or with both,
\* that go to the far corner of the open grid or come back to the start on
\* the other grid, and the call whose entry the cache holds.
FullRequests ==
  { r \in ServiceRequests :
      /\ r.algorithm \in Algorithms
      /\ Len(r.pickup_points) # 1
      /\ r.end = <<1, 1>> \/ r.grid # GridOf(2, 2, {}) }

\* The iteration orders a process can have: the set built from a list of
\* pickup points iterates in some order of them, the same whenever the set
\* is built from that list again.
PickupLists == DistinctSeqs(Range(Stops), Len(Stops))
IterationOrders ==
  { f \in [PickupLists -> UNION { Orderings(s) : s \in PickupLists }] :
      \A s \in PickupLists : f[s] \in Orderings(s) }

\* The cache after n calls _a_star(FillerGrid(i), (0, 0), (0, 0)) on a new
\* service, for i = 0 .. n - 1.
FilledCache(n) ==
  [k \in {CacheKey(FillerGrid(i), <<0, 0>>, <<0, 0>>) : i \in 0..(n - 1)} |->
     AStarCompute(k[1], <<0, 0>>, <<0, 0>>).path]

\* The first call on a new service, in a process with any iteration order.
InitService ==
  /\ cache = EmptyCache
  /\ set_order \in IterationOrders
  /\ \E r \in ServiceRequests :
       /\ grid = r.grid
       /\ start = r.start
       /\ end = r.end
       /\ pickup_points = r.pickup_points
       /\ algorithm = r.algorithm
  /\ NotCalled
  /\ grid_data = NoDocument

\* The next call on a service whose cache the calls before have filled
\* up to Headroom entries or fewer below max_cache_size.
InitFull ==
  /\ cache \in { FilledCache(n) : n \in (MaxCacheSize - Headroom)..MaxCacheSize }
  /\ set_order \in IterationOrders
  /\ \E r \in FullRequests :
       /\ grid = r.grid
       /\ start = r.start
       /\ end = r.end
       /\ pickup_points = r.pickup_points
       /\ algorithm = r.algorithm
  /\ NotCalled
  /\ grid_data = NoDocument

\* find_optimal_path(grid, start, end, pickup_points, algorithm) in a
\* process whose sets iterate as set_order says.
FindOptimalPathInProcess ==
  /\ pc = "idle"
  /\ \E o \in FindOptimalPathOutcomes(cache, grid, start, end, pickup_points, algorithm) :
       /\ o.strategy = "matrix"
            => o.raw = BalancedPathIn(set_order[pickup_points], grid, start, end, pickup_points)
       /\ result' = o.result
       /\ raw' = o.raw
       /\ cache' = o.cache
       /\ strategy' = o.strategy
  /\ pc' = "done"
  /\ UNCHANGED <<grid, start, end, pickup_points, algorithm, response, calls, set_order, others>>

\* The next call is made: its arguments are set, and what the call before
\* returned is no longer looked at.
NextCall ==
  /\ pc = "done"
  /\ calls + 1 < MaxCalls
  /\ calls' = calls + 1
  /\ \E r \in ServiceRequests :
       /\ grid' = r.grid
       /\ start' = r.start
       /\ end' = r.end
       /\ pickup_points' = r.pickup_points
       /\ algorithm' = r.algorithm
  /\ strategy' = "none"
  /\ raw' = ReturnNone
  /\ result' = ReturnNone
  /\ pc' = "idle"
  /\ UNCHANGED <<cache, response, set_order, others>>

\* clear_cache(), between two calls.
ClearCache ==
  /\ pc = "done"
  /\ cache' = EmptyCache
  /\ UNCHANGED <<grid, start, end, pickup_points, algorithm, strategy, raw, result,
                 pc, response, calls, set_order, others>>

NextService == FindOptimalPathInProcess \/ AStarCall \/ NextCall \/ ClearCache
SpecService == InitService /\ [][NextService]_vars

\* The next call on the nearly full service.
NextCallFull ==
  /\ pc = "done"
  /\ calls + 1 < MaxCalls
  /\ calls' = calls + 1
  /\ \E r \in FullRequests :
       /\ grid' = r.grid
       /\ start' = r.start
       /\ end' = r.end
       /\ pickup_points' = r.pickup_points
       /\ algorithm' = r.algorithm
  /\ strategy' = "none"
  /\ raw' = ReturnNone
  /\ result' = ReturnNone
  /\ pc' = "idle"
  /\ UNCHANGED <<cache, response, set_order, others>>

NextFull == FindOptimalPathInProcess \/ AStarCall \/ NextCallFull \/ ClearCache
SpecFull == InitFull /\ [][NextFull]_vars

\* ------------------------------------------------------------------------
\* find_optimal_path on a grid that is not a rectangle of 0/1 cells.  The
\* service checks nothing about the grid it is given, and GridData lets
\* grids with rows of different lengths and the grid without rows through.
\* ------------------------------------------------------------------------
\* The grids of 2 x 2 cells valued 0, 1 or 2 with a 2 among them, the grids
\* of a row of 2 cells over a row of 3 cells valued 0 or 1, and the grid
\* without rows.
MalformedGrids ==
  { g \in [1..2 -> [1..2 -> {0, 1, 2}]] : \E x, y \in 1..2 : g[x][y] = 2 }
    \cup { <<top, bottom>> : top \in [1..2 -> {0, 1}], bottom \in [1..3 -> {0, 1}] }
    \cup { <<>> }

\* The points a caller can pass with the grid: the cells within len(grid)
\* rows and len(grid[0]) columns that are not 1 (the test of line 45 of
\* validate_point), (0, 0) for the grid without rows.
PassableCells(g) ==
  IF g = <<>> THEN { <<0, 0>> }
  ELSE { p \in CellsOf(NumRows(g), NumCols(g)) : CellAt(g, p[1], p[2]) # 1 }

InitMalformed ==
  /\ grid \in MalformedGrids
  /\ start \in PassableCells(grid)
  /\ end \in PassableCells(grid)
  /\ pickup_points \in DistinctSeqs(PassableCells(grid), 1)
  /\ algorithm \in Algorithms
  /\ Fresh

FindOptimalPathAnyGrid ==
  /\ pc = "idle"
  /\ \E o \in FindOptimalPathAnyGridOutcomes(cache, grid, start, end, pickup_points,
                                             algorithm) :
       /\ result' = o.result
       /\ raw' = o.raw
       /\ cache' = o.cache
       /\ strategy' = o.strategy
  /\ pc' = "done"
  /\ UNCHANGED <<grid, start, end, pickup_points, algorithm, response, calls, set_order, others>>

NextMalformed == FindOptimalPathAnyGrid
SpecMalformed == InitMalformed /\ [][NextMalformed]_vars

\* ------------------------------------------------------------------------
\* _multi_target_bfs called on its own: from a free cell of the grid to a
\* set of free cells, the source among them or not.
\* ------------------------------------------------------------------------
InitBfs ==
  /\ grid \in PlanGrids
  /\ start \in FreeCells(grid)
  /\ end = start
  /\ pickup_points = <<>>
  /\ algorithm = "optimal"
  /\ cache = EmptyCache
  /\ set_order = <<>>
  /\ strategy = "none" /\ raw = ReturnNone /\ result = ReturnNone /\ pc = "idle"
  /\ response = NoResponse /\ calls = 0
  /\ search = NoSearch
  /\ targets \in { t \in SUBSET FreeCells(grid) : Cardinality(t) <= MaxTargets }
  /\ callers = <<>> /\ products = <<>> /\ savers = <<>> /\ grid_data = NoDocument

\* _multi_target_bfs(grid, start, targets): search is left with the local
\* variables of the call at its return, found_paths among them.
MultiTargetBfsCall ==
  /\ pc = "idle"
  /\ search' = BfsLoop(grid, NumRows(grid), NumCols(grid), BfsInit(start, targets))
  /\ strategy' = "bfs"
  /\ pc' = "done"
  /\ UNCHANGED <<grid, start, end, pickup_points, algorithm, cache, raw, result,
                 response, calls, set_order, targets, callers, products, savers,
                 grid_data>>

NextBfs == MultiTargetBfsCall
SpecBfs == InitBfs /\ [][NextBfs]_vars

\* ------------------------------------------------------------------------
\* find_optimal_path across a wall: grids of 3 x 3 cells whose middle row
\* is obstacles but for at most one gap, the start in the top row and the
\* end in the bottom row.
\* ------------------------------------------------------------------------
WallGrids ==
  { g \in AllGridsOf(3, 3) : Cardinality({y \in 1..3 : g[2][y] = 0}) <= 1 }

InitWall ==
  /\ grid \in WallGrids
  /\ start \in {p \in FreeCells(grid) : p[1] = 0}
  /\ end \in {p \in FreeCells(grid) : p[1] = 2}
  /\ pickup_points \in DistinctSeqs(FreeCells(grid), 1)
  /\ algorithm \in Algorithms
  /\ Fresh

NextWall == FindOptimalPath
SpecWall == InitWall /\ [][NextWall]_vars

\* ------------------------------------------------------------------------
\* Several calls of _a_star at once on one service, as threads of one
\* process make them: the interpreter can switch between two callers
\* between any two statements, so the lookup (lines 90-91), the search
\* (lines 94-129), the test of the cache size (line 131) and the store
\* (line 132) of different callers interleave.  Nothing in the service
\* keeps them apart.
\* ------------------------------------------------------------------------
\* The queries of the callers: two on the open 2 x 2 grid, one on the grid
\* with an obstacle, one whose end is behind an obstacle.
CallerQueries ==
  { [grid |-> GridOf(2, 2, {}), start |-> <<0, 0>>, end |-> <<1, 1>>],
    [grid |-> GridOf(2, 2, {}), start |-> <<0, 1>>, end |-> <<1, 0>>],
    [grid |-> GridOf(2, 2, {<<1, 1>>}), start |-> <<0, 1>>, end |-> <<1, 0>>],
    [grid |-> FillerGrid(1), start |-> <<0, 0>>, end |-> <<0, 2>>] }

\* A caller that has entered _a_star.
Entered(q) ==
  [pc |-> "lookup", grid |-> q.grid, start |-> q.start, end |-> q.end,
   result |-> ReturnNone]

InitRace ==
  /\ cache \in { FilledCache(n) : n \in (MaxCacheSize - Headroom)..MaxCacheSize }
  /\ callers \in [1..MaxCallers -> { Entered(q) : q \in CallerQueries }]
  /\ grid = GridOf(2, 2, {})
  /\ start = <<0, 0>>
  /\ end = <<0, 0>>
  /\ pickup_points = <<>>
  /\ algorithm = "optimal"
  /\ set_order = <<>>
  /\ strategy = "none" /\ raw = ReturnNone /\ result = ReturnNone /\ pc = "idle"
  /\ response = NoResponse /\ calls = 0
  /\ search = NoSearch /\ targets = {}
  /\ products = <<>> /\ savers = <<>> /\ grid_data = NoDocument

\* The variables a caller of _a_star leaves alone.
beside == <<grid, start, end, pickup_points, algorithm, strategy, raw, result, pc,
            response, calls, set_order, search, targets, products, savers, grid_data>>

\* Lines 89-91: the key is looked up and a stored path returned.
Lookup(i) ==
  /\ callers[i].pc = "lookup"
  /\ \E cache_key \in {CacheKey(callers[i].grid, callers[i].start, callers[i].end)} :
       callers' =
         [callers EXCEPT ![i] =
            IF cache_key \in DOMAIN cache
            THEN [pc |-> "done", grid |-> @.grid, start |-> @.start, end |-> @.end,
                  result |-> ReturnPath(cache[cache_key])]
            ELSE [pc |-> "search", grid |-> @.grid, start |-> @.start, end |-> @.end,
                  result |-> @.result]]
  /\ UNCHANGED <<cache, beside>>

\* Lines 94-129 and 135: the search; None is returned at once.
Search(i) ==
  /\ callers[i].pc = "search"
  /\ \E r \in {AStarCompute(callers[i].grid, callers[i].start, callers[i].end)} :
       callers' =
         [callers EXCEPT ![i] =
            [pc |-> IF r.kind = "path" THEN "check" ELSE "done",
             grid |-> @.grid, start |-> @.start, end |-> @.end, result |-> r]]
  /\ UNCHANGED <<cache, beside>>

\* Line 131: if len(self.cache) < self.max_cache_size
CheckRoom(i) ==
  /\ callers[i].pc = "check"
  /\ callers' =
       [callers EXCEPT ![i].pc =
          IF Cardinality(DOMAIN cache) < MaxCacheSize THEN "store" ELSE "done"]
  /\ UNCHANGED <<cache, beside>>

\* Line 132: self.cache[cache_key] = result, then the return of line 133.
Store(i) ==
  /\ callers[i].pc = "store"
  /\ cache' = (CacheKey(callers[i].grid, callers[i].start, callers[i].end)
                 :> callers[i].result.path) @@ cache
  /\ callers' = [callers EXCEPT ![i].pc = "done"]
  /\ UNCHANGED beside

NextRace ==
  \E i \in 1..MaxCallers : Lookup(i) \/ Search(i) \/ CheckRoom(i) \/ Store(i)
SpecRace == InitRace /\ [][NextRace]_vars

\* ------------------------------------------------------------------------
\* The loops of the service, one iteration per step: the while loop of
\* _a_star, the while loop of _multi_target_bfs, and the while loops of
\* _nearest_neighbor_path and _nearest_neighbor_with_matrix, whose
\* iterations call _a_star or read the distance matrix in one step.
\* pc is "enter_x" at the call of loop x's method, "in_x" at the loop test,
\* "done" after the return.
\* ------------------------------------------------------------------------
\* The grids of the stepped search of _a_star: 3 x 3 cells with at most
\* MaxObstacles obstacles.
StepGrids == GridsOf(3, 3)

InitLoops ==
  /\ cache = EmptyCache
  /\ set_order = <<>>
  /\ strategy = "none" /\ raw = ReturnNone /\ result = ReturnNone
  /\ response = NoResponse /\ calls = 0
  /\ search = NoSearch
  /\ callers = <<>> /\ products = <<>> /\ savers = <<>> /\ grid_data = NoDocument
  /\ \/ /\ pc = "enter_a_star"
        /\ grid \in StepGrids
        /\ start \in FreeCells(grid)
        /\ end \in FreeCells(grid)
        /\ pickup_points = <<>> /\ algorithm = "optimal" /\ targets = {}
     \/ /\ pc = "enter_bfs"
        /\ grid \in PlanGrids
        /\ start \in FreeCells(grid)
        /\ end = start
        /\ pickup_points = <<>> /\ algorithm = "balanced"
        /\ targets \in { t \in SUBSET FreeCells(grid) : Cardinality(t) <= MaxTargets }
     \/ /\ pc = "enter_direct"
        /\ grid \in PlanGrids
        /\ start \in FreeCells(grid)
        /\ end \in FreeCells(grid)
        /\ pickup_points \in DistinctSeqs(FreeCells(grid), MaxWaypoints) \ { <<>> }
        /\ algorithm = "fast" /\ targets = {}
     \/ /\ pc = "enter_matrix"
        /\ grid \in PlanGrids
        /\ start \in FreeCells(grid)
        /\ end \in FreeCells(grid)
        /\ pickup_points \in DistinctSeqs(FreeCells(grid), MaxWaypoints) \ { <<>> }
        /\ algorithm = "balanced" /\ targets = {}

\* What no step of a loop changes.
request == <<grid, start, end, pickup_points, algorithm, response, calls, set_order,
             targets, callers, products, savers, grid_data>>

\* _a_star, lines 89-98: a cache miss, the search begins.
AStarEnter ==
  /\ pc = "enter_a_star"
  /\ CacheKey(grid, start, end) \notin DOMAIN cache
  /\ search' = AStarInit(start)
  /\ pc' = "in_a_star"
  /\ UNCHANGED <<cache, strategy, raw, result, request>>

\* One iteration of the while loop of _a_star (lines 100-116).
AStarStep ==
  /\ pc = "in_a_star"
  /\ ~search.done /\ search.frontier # {}
  /\ search' = AStarIter(grid, NumRows(grid), NumCols(grid), end, search)
  /\ UNCHANGED <<cache, strategy, raw, result, pc, request>>

\* The loop of _a_star is left (break or empty frontier): lines 118-135.
AStarLeave ==
  /\ pc = "in_a_star"
  /\ search.done \/ search.frontier = {}
  /\ \E o \in { AStarMiss(cache, CacheKey(grid, start, end),
                          AStarResult(WalkBack(search.came_from, end, <<>>), start)) } :
       /\ result' = o.result
       /\ raw' = o.result
       /\ cache' = o.cache
  /\ strategy' = "a_star"
  /\ pc' = "done"
  /\ UNCHANGED <<search, request>>

\* _multi_target_bfs, lines 209-213.
BfsEnter ==
  /\ pc = "enter_bfs"
  /\ search' = BfsInit(start, targets)
  /\ pc' = "in_bfs"
  /\ UNCHANGED <<cache, strategy, raw, result, request>>

\* One iteration of the while loop of _multi_target_bfs (lines 215-234).
BfsStep ==
  /\ pc = "in_bfs"
  /\ search.queue # <<>> /\ search.remaining_targets # {}
  /\ search' = BfsIter(grid, NumRows(grid), NumCols(grid), search)
  /\ UNCHANGED <<cache, strategy, raw, result, pc, request>>

\* return found_paths (line 236).
BfsLeave ==
  /\ pc = "in_bfs"
  /\ search.queue = <<>> \/ search.remaining_targets = {}
  /\ strategy' = "bfs"
  /\ pc' = "done"
  /\ UNCHANGED <<cache, raw, result, search, request>>

\* _nearest_neighbor_path, lines 240-242.
DirectEnter ==
  /\ pc = "enter_direct"
  /\ search' = [path |-> <<>>, current |-> start, remaining |-> pickup_points]
  /\ pc' = "in_direct"
  /\ UNCHANGED <<cache, strategy, raw, result, request>>

\* One iteration of the while loop of _nearest_neighbor_path (lines
\* 244-260): the leg to the nearest point, or return None without it.
DirectIterate ==
  /\ pc = "in_direct"
  /\ search.remaining # <<>>
  /\ \E i \in {DirectNearestIndex(search.current, search.remaining)} :
     \E leg \in {AStar(cache, grid, search.current, search.remaining[i])} :
       /\ cache' = leg.cache
       /\ IF IsFalsy(leg.result)
          THEN /\ result' = ReturnNone /\ raw' = ReturnNone
               /\ strategy' = "direct" /\ pc' = "done"
               /\ UNCHANGED search
          ELSE /\ search' = [path |-> Stitch(search.path, leg.result.path),
                             current |-> search.remaining[i],
                             remaining |-> RemoveAt(search.remaining, i)]
               /\ UNCHANGED <<strategy, raw, result, pc>>
  /\ UNCHANGED request

\* Lines 262-271: the final segment.
DirectLeave ==
  /\ pc = "in_direct"
  /\ search.remaining = <<>>
  /\ \E leg \in {AStar(cache, grid, search.current, end)} :
     \E o \in {DirectFinish(search.path, leg)} :
       /\ result' = o.result
       /\ raw' = o.result
       /\ cache' = o.cache
  /\ strategy' = "direct"
  /\ pc' = "done"
  /\ UNCHANGED <<search, request>>

\* _balanced_path (lines 142-144) and lines 275-278.
MatrixEnter ==
  /\ pc = "enter_matrix"
  /\ search' = [distance_matrix |->
                  CreateDistanceMatrix(grid, <<start>> \o pickup_points \o <<end>>),
                path |-> <<>>, current |-> start, unvisited |-> Range(pickup_points)]
  /\ pc' = "in_matrix"
  /\ UNCHANGED <<cache, strategy, raw, result, request>>

\* One iteration of the while loop of _nearest_neighbor_with_matrix (lines
\* 280-293), or the KeyError of line 286 that find_optimal_path catches.
MatrixIterate ==
  /\ pc = "in_matrix"
  /\ search.unvisited # {}
  /\ \E nearest \in MatrixNearest(MatrixRow(search.distance_matrix, search.current),
                                  search.unvisited) :
       IF nearest \in DOMAIN MatrixRow(search.distance_matrix, search.current)
       THEN /\ search' = [search EXCEPT
                            !.path = Stitch(@, MatrixRow(search.distance_matrix,
                                                         search.current)[nearest]),
                            !.current = nearest,
                            !.unvisited = @ \ {nearest}]
            /\ UNCHANGED <<strategy, raw, result, pc>>
       ELSE /\ raw' = ReturnRaise /\ result' = Caught(ReturnRaise)
            /\ strategy' = "matrix" /\ pc' = "done"
            /\ UNCHANGED search
  /\ UNCHANGED <<cache, request>>

\* Lines 295-303.
MatrixLeave ==
  /\ pc = "in_matrix"
  /\ search.unvisited = {}
  /\ result' = MatrixFinish(search.distance_matrix, search.current, end, search.path)
  /\ raw' = result'
  /\ strategy' = "matrix"
  /\ pc' = "done"
  /\ UNCHANGED <<cache, search, request>>

NextLoops ==
  \/ AStarEnter \/ AStarStep \/ AStarLeave
  \/ BfsEnter \/ BfsStep \/ BfsLeave
  \/ DirectEnter \/ DirectIterate \/ DirectLeave
  \/ MatrixEnter \/ MatrixIterate \/ MatrixLeave
SpecLoops == InitLoops /\ [][NextLoops]_vars

\* The calls that start in the top-left cell.
InitFair == InitLoops /\ start = <<0, 0>>

\* The interpreter runs the call on: a step that can be taken is taken.
FairLoops == InitFair /\ [][NextLoops]_vars /\ WF_vars(NextLoops)

\* ------------------------------------------------------------------------
\* save_product, update_product and delete_product (product_routes.py) and
\* ProductRepository.update_product (repositories.py): concurrent requests
\* and calls on one products collection.  products lists the product_id of
\* every stored document in insertion order; savers holds, per request,
\* where its coroutine stands, the status it answered and, for the call of
\* the repository, what it returned.  A save_product request is at
\* "check_id" when it arrives, at "find_grid" while it waits at line 28, at
\* "lookup" while it waits at line 41, at "insert" while it waits at line
\* 48; a delete_product request is at "delete", an update at "update".  All
\* end at "done".
\* The products collection has a plain index on product_id (database.py,
\* line 64), which does not reject a second document with the same value.
\* ProductRepository.create_product and delete_product (repositories.py,
\* lines 138-156 and 211-224) make the database calls of save_product
\* (lines 41-48) and delete_product in the same order.
\* ------------------------------------------------------------------------
\* The product_id values of the requests.
ProductIds == {"WDG001", "WDG002"}

\* What the checks of lines 24-38 find for a request.
GridChecks == {"ok", "invalid_id", "not_found", "outside"}

\* db.products.find_one({"product_id": product_id}) is truthy.
FindOne(collection, product_id) ==
  \E n \in DOMAIN collection : collection[n] = product_id

\* db.products.insert_one(product_dict)
InsertOne(collection, product_id) == Append(collection, product_id)

\* db.products.delete_one({"product_id": product_id}): the first document
\* with that product_id goes.
DeleteOne(collection, product_id) ==
  LET first == CHOOSE n \in DOMAIN collection :
                 /\ collection[n] = product_id
                 /\ \A m \in 1..(n - 1) : collection[m] # product_id
  IN SubSeq(collection, 1, first - 1) \o SubSeq(collection, first + 1, Len(collection))

\* update_one({"product_id": product_id}, {"$set": product.dict()}) with
\* product.product_id = new_id: the first document with that product_id
\* gets the fields of product, product_id among them.
UpdateOne(collection, product_id, new_id) ==
  IF FindOne(collection, product_id)
  THEN LET first == CHOOSE n \in DOMAIN collection :
                      /\ collection[n] = product_id
                      /\ \A m \in 1..(n - 1) : collection[m] # product_id
       IN [collection EXCEPT ![first] = new_id]
  ELSE collection

\* A request that has entered save_product.
Received(product_id, grid_check) ==
  [kind |-> "save_product", pc |-> "check_id", product_id |-> product_id,
   new_id |-> product_id, grid_check |-> grid_check, status |-> 0, returned |-> ""]

\* A request that has entered delete_product.
DeleteReceived(product_id) ==
  [kind |-> "delete_product", pc |-> "delete", product_id |-> product_id,
   new_id |-> product_id, grid_check |-> "ok", status |-> 0, returned |-> ""]

\* A request that has entered update_product of the route (kind
\* "update_product") or a call of ProductRepository.update_product, for the
\* stored product_id with a product whose product_id is new_id.
UpdateReceived(kind, product_id, new_id) ==
  [kind |-> kind, pc |-> "update", product_id |-> product_id,
   new_id |-> new_id, grid_check |-> "ok", status |-> 0, returned |-> ""]

\* A request at position to, with the status it has answered (0: none yet).
Moved(saver, to, status) ==
  [kind |-> saver.kind, pc |-> to, product_id |-> saver.product_id,
   new_id |-> saver.new_id, grid_check |-> saver.grid_check,
   status |-> status, returned |-> saver.returned]

\* A call of the repository that has returned a value.
Returned(saver, value) ==
  [kind |-> saver.kind, pc |-> "done", product_id |-> saver.product_id,
   new_id |-> saver.new_id, grid_check |-> saver.grid_check,
   status |-> saver.status, returned |-> value]

InitSave ==
  /\ products \in {<<>>} \cup { <<p>> : p \in ProductIds }
  /\ savers \in [1..MaxSavers ->
                   { Received(p, g) : p \in ProductIds, g \in GridChecks }
                     \cup { DeleteReceived(p) : p \in ProductIds }
                     \cup { UpdateReceived(k, p, n) :
                              k \in {"update_product", "ProductRepository.update_product"},
                              p \in ProductIds, n \in ProductIds }]
  /\ cache = EmptyCache
  /\ grid = GridOf(2, 2, {})
  /\ start = <<0, 0>>
  /\ end = <<0, 0>>
  /\ pickup_points = <<>>
  /\ algorithm = "optimal"
  /\ set_order = <<>>
  /\ strategy = "none" /\ raw = ReturnNone /\ result = ReturnNone /\ pc = "idle"
  /\ response = NoResponse /\ calls = 0
  /\ search = NoSearch /\ targets = {} /\ callers = <<>> /\ grid_data = NoDocument

\* The variables a product request leaves alone.
aside == <<grid, start, end, pickup_points, algorithm, cache, strategy, raw, result, pc,
           response, calls, set_order, search, targets, callers, grid_data>>

\* Lines 24-28: the grid id is checked, then the coroutine waits for
\* db.grids.find_one.
SaveCheckId(i) ==
  /\ savers[i].pc = "check_id"
  /\ savers' =
       [savers EXCEPT ![i] =
          IF savers[i].grid_check = "invalid_id"
          THEN Moved(savers[i], "done", 400)
          ELSE Moved(savers[i], "find_grid", 0)]
  /\ UNCHANGED <<products, aside>>

\* Lines 28-41: the grid is there and the coordinates are within it, then
\* the coroutine waits for db.products.find_one.
SaveCheckGrid(i) ==
  /\ savers[i].pc = "find_grid"
  /\ savers' =
       [savers EXCEPT ![i] =
          CASE savers[i].grid_check = "not_found" -> Moved(savers[i], "done", 404)
            [] savers[i].grid_check = "outside" -> Moved(savers[i], "done", 400)
            [] OTHER -> Moved(savers[i], "lookup", 0)]
  /\ UNCHANGED <<products, aside>>

\* Lines 41-48: 409 when a document is found, else the coroutine waits for
\* db.products.insert_one.
SaveLookup(i) ==
  /\ savers[i].pc = "lookup"
  /\ savers' =
       [savers EXCEPT ![i] =
          IF FindOne(products, savers[i].product_id)
          THEN Moved(savers[i], "done", 409)
          ELSE Moved(savers[i], "insert", 0)]
  /\ UNCHANGED <<products, aside>>

\* Lines 48-56: the document is inserted, then the answer.
SaveInsert(i) ==
  /\ savers[i].pc = "insert"
  /\ products' = InsertOne(products, savers[i].product_id)
  /\ savers' = [savers EXCEPT ![i] = Moved(savers[i], "done", 200)]
  /\ UNCHANGED aside

\* delete_product (lines 152-159): one document goes, or 404 when there is
\* none.
DeleteProduct(i) ==
  /\ savers[i].pc = "delete"
  /\ IF FindOne(products, savers[i].product_id)
     THEN /\ products' = DeleteOne(products, savers[i].product_id)
          /\ savers' = [savers EXCEPT ![i] = Moved(savers[i], "done", 200)]
     ELSE /\ savers' = [savers EXCEPT ![i] = Moved(savers[i], "done", 404)]
          /\ UNCHANGED products
  /\ UNCHANGED aside

\* update_product of the route (product_routes.py, lines 124-137): 400 when
\* the ids differ, else the update, 404 when no document matched.
UpdateProduct(i) ==
  /\ savers[i].kind = "update_product"
  /\ savers[i].pc = "update"
  /\ IF savers[i].new_id # savers[i].product_id
     THEN /\ savers' = [savers EXCEPT ![i] = Moved(savers[i], "done", 400)]
          /\ UNCHANGED products
     ELSE /\ products' = UpdateOne(products, savers[i].product_id, savers[i].new_id)
          /\ savers' =
               [savers EXCEPT ![i] =
                  Moved(savers[i], "done",
                        IF FindOne(products, savers[i].product_id) THEN 200 ELSE 404)]
  /\ UNCHANGED aside

\* ProductRepository.update_product (repositories.py, lines 190-209): the
\* update without a test of the ids; True when a document matched.
RepositoryUpdateProduct(i) ==
  /\ savers[i].kind = "ProductRepository.update_product"
  /\ savers[i].pc = "update"
  /\ products' = UpdateOne(products, savers[i].product_id, savers[i].new_id)
  /\ savers' =
       [savers EXCEPT ![i] =
          Returned(savers[i],
                   IF FindOne(products, savers[i].product_id) THEN "True" ELSE "False")]
  /\ UNCHANGED aside

NextSave ==
  \E i \in 1..MaxSavers :
    \/ SaveCheckId(i) \/ SaveCheckGrid(i) \/ SaveLookup(i) \/ SaveInsert(i)
    \/ DeleteProduct(i) \/ UpdateProduct(i) \/ RepositoryUpdateProduct(i)
SpecSave == InitSave /\ [][NextSave]_vars

Next == FindOptimalPath
Spec == Init /\ [][Next]_vars

NextSearch == AStarCall
SpecSearch == InitSearch /\ [][NextSearch]_vars

NextSelect == FindOptimalPath
SpecSelect == InitSelect /\ [][NextSelect]_vars

\* ------------------------------------------------------------------------
\* Reference definitions for the properties, independent of the searches
\* above: 4-adjacency, and distance by breadth-first layers.
\* ------------------------------------------------------------------------
Adjacent(p, q) == Abs(p[1] - q[1]) + Abs(p[2] - q[2]) = 1

\* The least number of 4-directional moves over free cells from the cells of
\* layer (all at distance d from the source) to target; -1 when there is no
\* such walk.
RECURSIVE LayerDistance(_, _, _, _, _)
LayerDistance(g, target, layer, seen, d) ==
  IF target \in layer THEN d
  ELSE IF layer = {} THEN -1
  ELSE LET next == {q \in FreeCells(g) \ seen : \E p \in layer : Adjacent(p, q)}
       IN LayerDistance(g, target, next, seen \cup next, d + 1)

TrueDistance(g, from, to) == LayerDistance(g, to, {from}, {from}, 0)

Reachable(g, from, to) == TrueDistance(g, from, to) >= 0

\* The call has returned a list.
ReturnedPath == pc = "done" /\ result.kind = "path"

\* ------------------------------------------------------------------------
\* C1.  For a reachable end, the path _a_star returns has length minus one
\* equal to the true 4-directional shortest-path distance from start to end.
\* ------------------------------------------------------------------------
C1_AStarShortest ==
  (pc = "done" /\ strategy = "a_star" /\ Reachable(grid, start, end))
    => /\ result.kind = "path"
       /\ Len(result.path) - 1 = TrueDistance(grid, start, end)

\* A search that had to go around an obstacle.
C1_Witness ==
  /\ ReturnedPath /\ strategy = "a_star"
  /\ Len(result.path) - 1 > ManhattanDistance(start, end)

\* ------------------------------------------------------------------------
\* C2 (as claimed).  Every path find_optimal_path returns starts at the
\* requested start and ends at the requested end.
\* ------------------------------------------------------------------------
C2_EndpointsClaim ==
  ReturnedPath
    => /\ result.path # <<>>
       /\ result.path[1] = start
       /\ result.path[Len(result.path)] = end

\* ------------------------------------------------------------------------
\* C3.  Every path find_optimal_path returns is cell-contiguous (consecutive
\* points are 4-adjacent, so no junction point is repeated) and every point
\* of it is a free cell inside the grid.
\* ------------------------------------------------------------------------
C3_Contiguous ==
  ReturnedPath
    => /\ \A i \in 1..(Len(result.path) - 1) : Adjacent(result.path[i], result.path[i + 1])
       /\ \A i \in 1..Len(result.path) : result.path[i] \in FreeCells(grid)

\* A route stitched from three legs, none of them empty.
C3_Witness ==
  /\ ReturnedPath
  /\ Len(pickup_points) = 2
  /\ start # pickup_points[1] /\ pickup_points[2] # end
  /\ result.path[Len(result.path)] = end
  /\ Len(result.path) >= 4

\* ------------------------------------------------------------------------
\* C4.  Every path find_optimal_path returns for a non-empty pickup list
\* contains every requested pickup point, under every strategy.
\* ------------------------------------------------------------------------
C4_VisitsAll ==
  (ReturnedPath /\ pickup_points # <<>>)
    => Range(pickup_points) \subseteq Range(result.path)

\* A returned route with two pickup points off the start and the end.
C4_Witness ==
  /\ ReturnedPath
  /\ Len(pickup_points) = 2
  /\ Range(pickup_points) \cap {start, end} = {}
  /\ strategy = "matrix"

\* ------------------------------------------------------------------------
\* C5 (as claimed).  When a required leg is unreachable (a pickup point or
\* the end is cut off from the start) no strategy returns a route: the
\* result is None.
\* ------------------------------------------------------------------------
AllConnected ==
  \A p \in Range(pickup_points) \cup {end} : Reachable(grid, start, p)

C5_NoPartialRouteClaim ==
  (pc = "done" /\ pickup_points # <<>> /\ ~AllConnected) => result.kind = "none"

\* ------------------------------------------------------------------------
\* C6.  _a_star returns None exactly when end is not reachable from start;
\* it returns the one-point path [start] when start = end, and never an
\* empty list.
\* ------------------------------------------------------------------------
C6_NoneIffUnreachable ==
  (pc = "done" /\ strategy = "a_star")
    => /\ (result.kind = "none") <=> ~Reachable(grid, start, end)
       /\ (start = end) => result = ReturnPath(<<start>>)
       /\ result # ReturnPath(<<>>)

\* A search whose end is walled off from its start.
C6_Witness ==
  /\ pc = "done" /\ strategy = "a_star"
  /\ result.kind = "none"
  /\ ~Reachable(grid, start, end)

\* ------------------------------------------------------------------------
\* C7.  The path the Exhaustive strategy returns has total distance equal
\* to the least, over all orderings of the pickup points, of the summed
\* shortest-path distances of the legs start -> w1 -> ... -> wk -> end; it
\* returns None only when no ordering has all its legs reachable.
\* ------------------------------------------------------------------------
\* The summed true distances of the legs from -> stops[1] -> ... -> to, or
\* -1 when a leg is unreachable.
RECURSIVE RouteCost(_, _, _, _)
RouteCost(g, from, stops, to) ==
  IF stops = <<>> THEN TrueDistance(g, from, to)
  ELSE LET d == TrueDistance(g, from, Head(stops))
           rest == RouteCost(g, Head(stops), Tail(stops), to)
       IN IF d < 0 \/ rest < 0 THEN -1 ELSE d + rest

FeasibleCosts ==
  { RouteCost(grid, start, o, end) : o \in Orderings(pickup_points) } \ {-1}

Least(S) == CHOOSE m \in S : \A n \in S : m <= n

C7_ExhaustiveOptimal ==
  (pc = "done" /\ strategy = "exhaustive")
    => LET costs == FeasibleCosts
       IN IF costs = {}
          THEN result.kind = "none"
          ELSE /\ result.kind = "path"
               /\ Len(result.path) - 1 = Least(costs)

\* An exhaustive search in which the order given is not a best one.
C7_Witness ==
  /\ ReturnedPath /\ strategy = "exhaustive"
  /\ Len(pickup_points) = 2
  /\ RouteCost(grid, start, pickup_points, end) > Len(result.path) - 1

\* ------------------------------------------------------------------------
\* C8.  On the same input, the route of the Exhaustive strategy is no
\* longer than the route the Matrix-Heuristic returns and no longer than
\* the route the Direct-Heuristic returns.
\* ------------------------------------------------------------------------
\* What the Exhaustive strategy returns for the input of the call.
ExhaustiveHere ==
  ExhaustiveSearch(EmptyCache, grid, start, end, pickup_points).result

C8_ExhaustiveNoWorse ==
  (ReturnedPath /\ strategy \in {"matrix", "direct"})
    => LET exhaustive == ExhaustiveHere
       IN exhaustive.kind = "path"
            => Len(exhaustive.path) - 1 <= Len(result.path) - 1

\* A heuristic route strictly longer than the exhaustive one.
C8_Witness ==
  /\ ReturnedPath /\ strategy \in {"matrix", "direct"}
  /\ LET exhaustive == ExhaustiveHere
     IN /\ exhaustive.kind = "path"
        /\ Len(exhaustive.path) < Len(result.path)

\* ------------------------------------------------------------------------
\* C9 (as claimed).  With algorithm "optimal" and 1 to 8 pickup points,
\* find_optimal_path runs the Exhaustive strategy.
\* ------------------------------------------------------------------------
C9_ExhaustiveUpTo8Claim ==
  (pc = "done" /\ algorithm = "optimal"
     /\ Len(pickup_points) >= 1 /\ Len(pickup_points) <= OptimalLimit)
    => strategy = "exhaustive"

\* C9 (amended).  With algorithm "optimal" and 1 to 6 pickup points,
\* find_optimal_path runs the Exhaustive strategy.
C9_ExhaustiveUpTo6 ==
  (pc = "done" /\ algorithm = "optimal"
     /\ Len(pickup_points) >= 1 /\ Len(pickup_points) <= BalancedThreshold)
    => strategy = "exhaustive"

\* An "optimal" request at the largest count the Exhaustive strategy gets.
C9_Witness ==
  /\ ReturnedPath /\ algorithm = "optimal"
  /\ Len(pickup_points) = BalancedThreshold
  /\ strategy = "exhaustive"

\* ------------------------------------------------------------------------
\* C10 (as claimed).  With algorithm "optimal" and more than 8 pickup
\* points, find_optimal_path runs the Matrix-Heuristic, whatever the count.
\* ------------------------------------------------------------------------
C10_MatrixAbove8Claim ==
  (pc = "done" /\ algorithm = "optimal" /\ Len(pickup_points) > OptimalLimit)
    => strategy = "matrix"

\* C10 (amended).  With algorithm "optimal" and 9 or 10 pickup points,
\* find_optimal_path runs the Matrix-Heuristic and the request is not
\* failed by the count; above 10 pickup points it runs the Direct-Heuristic.
C10_MatrixFrom9To10 ==
  (pc = "done" /\ algorithm = "optimal" /\ Len(pickup_points) > OptimalLimit)
    => /\ raw.kind # "raise"
       /\ IF Len(pickup_points) <= FastThreshold
          THEN strategy = "matrix"
          ELSE strategy = "direct"

\* An "optimal" request with 9 pickup points answered by the Matrix-Heuristic.
C10_Witness ==
  /\ ReturnedPath /\ algorithm = "optimal"
  /\ Len(pickup_points) = OptimalLimit + 1
  /\ strategy = "matrix"

\* ------------------------------------------------------------------------
\* C11 (as claimed).  With algorithm "balanced" and at least one pickup
\* point, find_optimal_path runs the Matrix-Heuristic, whatever the count.
\* ------------------------------------------------------------------------
C11_BalancedAlwaysMatrixClaim ==
  (pc = "done" /\ algorithm = "balanced" /\ Len(pickup_points) >= 1)
    => strategy = "matrix"

\* C11 (amended).  With algorithm "balanced", find_optimal_path runs the
\* Matrix-Heuristic for 1 to 10 pickup points and the Direct-Heuristic for
\* more than 10.
C11_BalancedMatrixUpTo10 ==
  (pc = "done" /\ algorithm = "balanced" /\ Len(pickup_points) >= 1)
    => IF Len(pickup_points) <= FastThreshold
       THEN strategy = "matrix"
       ELSE strategy = "direct"

\* A "balanced" request at the largest count the Matrix-Heuristic gets,
\* and answered by it.
C11_Witness ==
  /\ ReturnedPath /\ algorithm = "balanced"
  /\ Len(pickup_points) = FastThreshold
  /\ strategy = "matrix"

\* ------------------------------------------------------------------------
\* C12 (as claimed).  Whenever the route answers a planning request with a
\* path, the algorithm_used it returns names the strategy that was run to
\* produce the path, also when the count of pickup points made that
\* strategy another one than the requested mode.
\* ------------------------------------------------------------------------
\* The mode whose name stands for a strategy.
ModeOf(ran) ==
  IF ran = "exhaustive" THEN "optimal"
  ELSE IF ran = "matrix" THEN "balanced"
  ELSE IF ran = "direct" THEN "fast"
  ELSE ran

C12_StrategyUsedClaim ==
  (pc = "done" /\ response.status = 200 /\ pickup_points # <<>>)
    => response.algorithm_used = ModeOf(strategy)

\* ------------------------------------------------------------------------
\* C19 (as claimed).  The path cache is shared across the requests the
\* process serves: an entry stored while serving one request is still
\* there, with its value, when and after a later request is served.
\* ------------------------------------------------------------------------
C19_CacheSharedClaim ==
  [][\A k \in DOMAIN cache : k \in DOMAIN cache' /\ cache'[k] = cache[k]]_vars

\* ------------------------------------------------------------------------
\* C14.  The total distance of every returned path, Len(path) - 1, is the
\* sum of the costs of the legs stitched in the visiting order chosen: the
\* path is at the i-th stop exactly after the summed costs of the first i
\* legs, so every junction point is there once and no leg point is lost or
\* repeated.
\* ------------------------------------------------------------------------
\* The index path has reached after the legs stops[1] -> ... -> stops[Len],
\* starting at index pos on stops[1], when it is on every stop after the
\* true distance of the leg to it; 0 when it is not.
RECURSIVE LegsEndAt(_, _, _, _)
LegsEndAt(g, path, stops, pos) ==
  IF pos > Len(path) \/ path[pos] # Head(stops) THEN 0
  ELSE IF Len(stops) = 1 THEN pos
  ELSE IF ~Reachable(g, stops[1], stops[2]) THEN 0
  ELSE LegsEndAt(g, path, Tail(stops), pos + TrueDistance(g, stops[1], stops[2]))

\* The stop sequences whose legs a strategy can have stitched: the start,
\* the pickup points in some order and the end; without the end where the
\* Matrix-Heuristic found no leg to it.
StitchedStops ==
  { <<start>> \o o \o <<end>> : o \in Orderings(pickup_points) }
    \cup { <<start>> \o o :
             o \in { q \in Orderings(pickup_points) :
                       /\ strategy = "matrix"
                       /\ ~Reachable(grid, q[Len(q)], end) } }

C14_DistanceIsSumOfLegs ==
  ReturnedPath
    => \E stops \in StitchedStops :
         LegsEndAt(grid, result.path, stops, 1) = TotalDistance(result.path) + 1

\* A route of three legs that comes back over a cell it has been on.
C14_Witness ==
  /\ ReturnedPath /\ strategy = "direct"
  /\ Len(pickup_points) = 2
  /\ result.path[Len(result.path)] = end
  /\ \E i, j \in 1..Len(result.path) : i < j /\ result.path[i] = result.path[j]

\* ------------------------------------------------------------------------
\* C13.  With no pickup points, find_optimal_path returns exactly what
\* _a_star(grid, start, end) returns, in every mode ("optimal", "balanced",
\* "fast" or another string) and whatever the cache holds, and runs no
\* ordering strategy.
\* ------------------------------------------------------------------------
C13_EmptyDelegates ==
  (pc = "done" /\ pickup_points = <<>>)
    => /\ strategy = "a_star"
       /\ raw = result
       /\ result = AStarCompute(grid, start, end)

\* A second call with no pickup points and a mode the code does not name.
C13_Witness ==
  /\ ReturnedPath /\ pickup_points = <<>>
  /\ algorithm = "other"
  /\ calls = 1
  /\ Len(result.path) = 3

\* ------------------------------------------------------------------------
\* C15.  After any sequence of calls and clear_cache on one service, every
\* entry of the cache maps its key (grid, start, end) to the path a fresh
\* search for that key returns, a shortest path from start to end; and an
\* _a_star query returns what a fresh search returns, whether it was
\* answered from the cache, computed, or computed again after clear_cache.
\* ------------------------------------------------------------------------
C15_CacheSound ==
  /\ \A k \in DOMAIN cache :
       /\ ReturnPath(cache[k]) = AStarCompute(k[1], k[2], k[3])
       /\ cache[k][1] = k[2] /\ cache[k][Len(cache[k])] = k[3]
       /\ Len(cache[k]) - 1 = TrueDistance(k[1], k[2], k[3])
  /\ (pc = "done" /\ strategy = "a_star") => result = AStarCompute(grid, start, end)

\* A second query whose key is the only one the cache holds: the same
\* query twice, or the query again after clear_cache.
C15_Witness ==
  /\ ReturnedPath /\ strategy = "a_star"
  /\ calls = 1
  /\ DOMAIN cache = {CacheKey(grid, start, end)}
  /\ Len(result.path) = 3

\* ------------------------------------------------------------------------
\* C16.  On one service the cache never holds more than max_cache_size
\* entries; a step that is not clear_cache removes none, an _a_star query
\* adds at most one, and every key a planning call adds is the key of a
\* leg of that call.
\* ------------------------------------------------------------------------
\* The points of the call.
CallPoints == {start, end} \cup Range(pickup_points)

C16_CacheBounded ==
  /\ [](Cardinality(DOMAIN cache) <= MaxCacheSize)
  /\ [][\/ ClearCache
         \/ cache' = cache
         \/ /\ DOMAIN cache \subseteq DOMAIN cache'
            /\ \A k \in DOMAIN cache' \ DOMAIN cache :
                 k[1] = grid /\ k[2] \in CallPoints /\ k[3] \in CallPoints
            /\ strategy' = "a_star"
                 => Cardinality(DOMAIN cache') <= Cardinality(DOMAIN cache) + 1]_vars

\* A cache the Exhaustive strategy has filled to max_cache_size with the
\* legs of its call.
C16_Witness ==
  /\ pc = "done" /\ strategy = "exhaustive"
  /\ Cardinality(DOMAIN cache) = MaxCacheSize
  /\ \E k \in DOMAIN cache : k[1] = grid /\ k[2] # k[3]

\* ------------------------------------------------------------------------
\* C17.  Once the cache holds an entry for a key, no call but clear_cache
\* changes its value or removes it: no eviction, no invalidation, also
\* when the cache is full and when legs are stitched from its paths.
\* ------------------------------------------------------------------------
\* cache @@ cache' is cache' with the entries of cache put over it: it is
\* cache' exactly when cache' has every key of cache with the value cache has.
C17_EntriesKept ==
  [][ClearCache \/ cache' = cache \/ cache @@ cache' = cache']_vars

\* A route of three legs returned by the Direct-Heuristic on a full cache.
C17_Witness ==
  /\ ReturnedPath /\ strategy = "direct"
  /\ Len(pickup_points) = 2
  /\ Cardinality(DOMAIN cache) = MaxCacheSize
  /\ calls = 1

\* ------------------------------------------------------------------------
\* C18.  When the cache holds max_cache_size entries, an _a_star query for
\* a key it does not hold still returns a shortest path from start to end
\* (None when there is none) and leaves the cache as it was.
\* ------------------------------------------------------------------------
\* r is a right answer to the search of (g, from, to).
RightAnswer(g, from, to, r) ==
  IF Reachable(g, from, to)
  THEN /\ r.kind = "path"
       /\ r.path[1] = from /\ r.path[Len(r.path)] = to
       /\ Len(r.path) - 1 = TrueDistance(g, from, to)
       /\ \A i \in 1..(Len(r.path) - 1) : Adjacent(r.path[i], r.path[i + 1])
       /\ \A i \in 1..Len(r.path) : r.path[i] \in FreeCells(g)
  ELSE r = ReturnNone

C18_FullCacheStillAnswers ==
  [][(/\ pc = "idle" /\ pc' = "done" /\ strategy' = "a_star"
      /\ Cardinality(DOMAIN cache) = MaxCacheSize
      /\ CacheKey(grid, start, end) \notin DOMAIN cache)
       => /\ RightAnswer(grid, start, end, result')
          /\ cache' = cache]_vars

\* An _a_star query answered with a path that a full cache did not take.
C18_Witness ==
  /\ ReturnedPath /\ strategy = "a_star"
  /\ Cardinality(DOMAIN cache) = MaxCacheSize
  /\ CacheKey(grid, start, end) \notin DOMAIN cache
  /\ Len(result.path) = 3

\* ------------------------------------------------------------------------
\* C20.  Determinism: find_optimal_path called with the same grid, start,
\* end, pickup points and mode returns the same path whatever the cache
\* holds when it is called (nothing, some entries, or max_cache_size of
\* them): the path the call returns on a new service of the same process.
\* ------------------------------------------------------------------------
\* What the call returns on a new service, in the process's iteration order.
FreshResults ==
  { o.result :
      o \in { f \in FindOptimalPathOutcomes(EmptyCache, grid, start, end,
                                             pickup_points, algorithm) :
                f.strategy = "matrix"
                  => f.raw = BalancedPathIn(set_order[pickup_points], grid, start, end, pickup_points) } }

C20_Deterministic ==
  (pc = "done" /\ (strategy = "a_star" => pickup_points = <<>>))
    => FreshResults = {result}

\* On a full cache, a Matrix-Heuristic route that starts with the pickup
\* point the iteration order puts first, not the one the request lists first.
C20_Witness ==
  /\ ReturnedPath /\ strategy = "matrix"
  /\ Len(pickup_points) = 2
  /\ Cardinality(DOMAIN cache) = MaxCacheSize
  /\ result.path[2] = set_order[pickup_points][1]
  /\ set_order[pickup_points][1] # pickup_points[1]

\* ------------------------------------------------------------------------
\* C21.  A malformed grid given to find_optimal_path is rejected with a
\* failure the caller can tell from "no path": the call returns neither
\* None nor a path.
\* ------------------------------------------------------------------------
\* The grids the claim calls well formed: a rectangle of 0/1 cells with at
\* least one row and one column.
WellFormed(g) ==
  /\ Len(g) > 0
  /\ Len(g[1]) > 0
  /\ \A x \in 1..Len(g) :
       /\ Len(g[x]) = Len(g[1])
       /\ \A y \in 1..Len(g[x]) : g[x][y] \in {0, 1}

C21_MalformedRejectedClaim ==
  (pc = "done" /\ ~WellFormed(grid)) => result.kind \notin {"none", "path"}

\* ------------------------------------------------------------------------
\* C22.  find_optimal_path never lets an exception out: every call returns
\* a path or None, and it returns None whenever the end or a pickup point
\* cannot be reached from the start.
\* ------------------------------------------------------------------------
C22_NoneWheneverUnreachableClaim ==
  pc = "done"
    => /\ result.kind \in {"path", "none"}
       /\ ~AllConnected => result = ReturnNone

\* ------------------------------------------------------------------------
\* C23 (as claimed).  At every step of the Direct-Heuristic the waypoint
\* appended next is an unvisited waypoint of least shortest-path leg length
\* from the current position.
\* C23 (amended).  At every step of the Direct-Heuristic the waypoint
\* appended next is the unvisited waypoint of least Manhattan distance from
\* the current position, the one listed first in the request among equals.
\* ------------------------------------------------------------------------
\* The returned path is the legs start -> order[1] -> ... -> end, each of
\* its true length.
VisitedIn(order) ==
  LegsEndAt(grid, result.path, <<start>> \o order \o <<end>>, 1) = Len(result.path)

\* The position the route is on when it chooses order[i].
PositionBefore(order, i) == IF i = 1 THEN start ELSE order[i - 1]

LegLength(p, q) == TrueDistance(grid, p, q)

\* The index of point p in the request's list of pickup points.
ListedAt(p) == CHOOSE i \in 1..Len(pickup_points) : pickup_points[i] = p

NearestByLegLength(order) ==
  \A i \in 1..Len(order) : \A j \in i..Len(order) :
    LegLength(PositionBefore(order, i), order[i])
      <= LegLength(PositionBefore(order, i), order[j])

NearestByManhattan(order) ==
  \A i \in 1..Len(order) : \A j \in (i + 1)..Len(order) :
    \/ ManhattanDistance(PositionBefore(order, i), order[i])
         < ManhattanDistance(PositionBefore(order, i), order[j])
    \/ /\ ManhattanDistance(PositionBefore(order, i), order[i])
            = ManhattanDistance(PositionBefore(order, i), order[j])
       /\ ListedAt(order[i]) < ListedAt(order[j])

C23_DirectNearestByLegClaim ==
  (ReturnedPath /\ strategy = "direct")
    => \E order \in Orderings(pickup_points) :
         VisitedIn(order) /\ NearestByLegLength(order)

C23_DirectNearestByManhattan ==
  (ReturnedPath /\ strategy = "direct")
    => \E order \in Orderings(pickup_points) :
         VisitedIn(order) /\ NearestByManhattan(order)

\* A route that goes first to the pickup point nearer in Manhattan distance
\* although the leg to the other is shorter, and is the legs of no order
\* that goes by leg length.
C23_Witness ==
  /\ ReturnedPath /\ strategy = "direct"
  /\ Len(pickup_points) = 2
  /\ \E order \in Orderings(pickup_points) :
       /\ VisitedIn(order) /\ NearestByManhattan(order)
       /\ LegLength(start, order[1]) > LegLength(start, order[2])
  /\ \A order \in Orderings(pickup_points) :
       VisitedIn(order) => ~NearestByLegLength(order)

\* ------------------------------------------------------------------------
\* C24.  _multi_target_bfs returns a mapping whose keys are exactly the
\* targets reachable from the source over free cells; each path starts at
\* the source, ends at its target, is contiguous, stays on free cells and
\* has the least length, which is the length of the path _a_star returns
\* for the pair; an unreachable target is not a key.
\* ------------------------------------------------------------------------
C24_BfsReachesExactly ==
  (pc = "done" /\ strategy = "bfs")
    => /\ DOMAIN search.found_paths = {t \in targets : Reachable(grid, start, t)}
       /\ \A t \in DOMAIN search.found_paths :
            RightAnswer(grid, start, t, ReturnPath(search.found_paths[t]))
       /\ \A t \in DOMAIN search.found_paths :
            /\ AStarCompute(grid, start, t).kind = "path"
            /\ Len(AStarCompute(grid, start, t).path) = Len(search.found_paths[t])

\* A call that finds one target two steps away and leaves the other,
\* walled off, out of the mapping.
C24_Witness ==
  /\ pc = "done" /\ strategy = "bfs"
  /\ Cardinality(targets) = 2
  /\ Cardinality(DOMAIN search.found_paths) = 1
  /\ \E t \in DOMAIN search.found_paths : Len(search.found_paths[t]) = 3

\* ------------------------------------------------------------------------
\* C25.  On a grid whose middle row is obstacles but for one gap cell, with
\* the start above and the end below, every path find_optimal_path returns
\* contains the gap cell; when the gap is an obstacle too, the call
\* returns None.
\* ------------------------------------------------------------------------
\* The free cells of the middle row.
GapCells == {p \in FreeCells(grid) : p[1] = 1}

C25_ThroughGapClaim ==
  pc = "done"
    => /\ result.kind = "path" => GapCells \subseteq Range(result.path)
       /\ GapCells = {} => result = ReturnNone

\* ------------------------------------------------------------------------
\* C26.  When several calls use one cache at once, the test of the cache
\* size and the store interleaving between callers, the cache is not
\* corrupted: it never holds more than max_cache_size entries, no stored
\* entry is lost, and every key maps to its own path.
\* ------------------------------------------------------------------------
\* The keys every cache of InitRace holds.
StoredBefore ==
  { CacheKey(FillerGrid(i), <<0, 0>>, <<0, 0>>) : i \in 0..(MaxCacheSize - Headroom - 1) }

C26_ConcurrentCacheIntactClaim ==
  /\ Cardinality(DOMAIN cache) <= MaxCacheSize
  /\ StoredBefore \subseteq DOMAIN cache
  /\ \A k \in DOMAIN cache :
       cache[k] = IF k[2] = k[3] THEN <<k[2]>> ELSE AStarCompute(k[1], k[2], k[3]).path

\* ------------------------------------------------------------------------
\* C27.  For every request that passes the validation of the route, with
\* the end and every pickup point reachable from the start,
\* find_optimal_path returns a path in each of the three modes, also when
\* a pickup point is the start or the end.
\* ------------------------------------------------------------------------
C27_ReachableGivesPathClaim ==
  (pc = "done" /\ algorithm \in Algorithms /\ AllConnected) => result.kind = "path"

\* ------------------------------------------------------------------------
\* C28.  In the loop of _a_star, a cell popped from the frontier with its
\* current best cost has the true distance from the start as its
\* cost_so_far.  In every state of the search, for every reached cell c
\* other than the start, came_from[c] is a free 4-neighbour of c, itself
\* reached, with cost_so_far[c] = cost_so_far[came_from[c]] + 1; and once
\* the end is reached, following came_from from it arrives at the start
\* after exactly cost_so_far[end] steps, on no cell twice.
\* ------------------------------------------------------------------------
\* search holds the local variables of _a_star.
InAStar == pc = "in_a_star" \/ (pc = "done" /\ strategy = "a_star")

\* The entry is the one pushed for the cost_so_far its point has now; the
\* entry of the start is pushed with priority 0 (line 95).
CurrentBest(entry) ==
  /\ entry[3] \in DOMAIN search.cost_so_far
  /\ \/ entry[2] = 0
     \/ entry[1] = search.cost_so_far[entry[3]] + ManhattanDistance(entry[3], end)

ParentsRight ==
  \A c \in DOMAIN search.came_from \ {start} :
    /\ search.came_from[c] \in FreeCells(grid)
    /\ Adjacent(search.came_from[c], c)
    /\ search.came_from[c] \in DOMAIN search.cost_so_far
    /\ c \in DOMAIN search.cost_so_far
    /\ search.cost_so_far[c] = search.cost_so_far[search.came_from[c]] + 1

WalkBackRight ==
  end \in DOMAIN search.came_from
    => /\ Len(WalkBack(search.came_from, end, <<>>)) = search.cost_so_far[end] + 1
       /\ WalkBack(search.came_from, end, <<>>)[search.cost_so_far[end] + 1] = start
       /\ Cardinality(Range(WalkBack(search.came_from, end, <<>>)))
            = search.cost_so_far[end] + 1

C28_AStarLoopInvariant ==
  /\ [](InAStar => /\ DOMAIN search.came_from = DOMAIN search.cost_so_far
                   /\ search.came_from[start] = NoPoint
                   /\ search.cost_so_far[start] = 0
                   /\ ParentsRight
                   /\ WalkBackRight)
  /\ [][(pc = "in_a_star" /\ search' # search /\ CurrentBest(HeapPop(search.frontier)))
          => search.cost_so_far[HeapPop(search.frontier)[3]]
               = TrueDistance(grid, start, HeapPop(search.frontier)[3])]_vars

\* A search that has popped the end after a detour around obstacles, the
\* end four or more steps from the start.
C28_Witness ==
  /\ pc = "in_a_star" /\ search.done
  /\ search.cost_so_far[end] > ManhattanDistance(start, end)
  /\ search.cost_so_far[end] >= 4

\* ------------------------------------------------------------------------
\* C29.  Every loop of a call comes to its end: the loop of _a_star, which
\* pushes a cell only when it is new or its cost got strictly lower; the
\* loop of _multi_target_bfs, which puts a cell on the queue at most once;
\* and the two greedy loops, which take exactly one waypoint out of the
\* unvisited ones in every iteration.
\* ------------------------------------------------------------------------
\* The cells of the entries a step of _a_star pushes.
Pushed == { e[3] : e \in search'.frontier \ search.frontier }

\* The cells a step of _multi_target_bfs appends to the queue.
Enqueued ==
  { search'.queue[n] : n \in Len(search.queue)..Len(search'.queue) }

AStarPushesOnLowerCost ==
  (pc = "in_a_star" /\ pc' = "in_a_star")
    => \A c \in Pushed :
         \/ c \notin DOMAIN search.cost_so_far
         \/ search'.cost_so_far[c] < search.cost_so_far[c]

BfsEnqueuesOnce ==
  (pc = "in_bfs" /\ pc' = "in_bfs" /\ search' # search)
    => /\ Tail(search.queue) = SubSeq(search'.queue, 1, Len(search.queue) - 1)
       /\ Enqueued \cap DOMAIN search.visited = {}
       /\ Cardinality(Enqueued) = Len(search'.queue) - Len(search.queue) + 1

GreedyTakesOne ==
  /\ (pc = "in_direct" /\ pc' = "in_direct" /\ search' # search)
       => Len(search'.remaining) = Len(search.remaining) - 1
  /\ (pc = "in_direct" /\ search' = search) => pc' = "done"
  /\ (pc = "in_matrix" /\ pc' = "in_matrix" /\ search' # search)
       => /\ search'.unvisited \subseteq search.unvisited
          /\ Cardinality(search'.unvisited) = Cardinality(search.unvisited) - 1
  /\ (pc = "in_matrix" /\ search' = search) => pc' = "done"

C29_LoopsTerminate ==
  /\ <>(pc = "done")
  /\ [][AStarPushesOnLowerCost /\ BfsEnqueuesOnce /\ GreedyTakesOne]_vars

\* A Direct-Heuristic call that has returned a route after taking two
\* waypoints, one per iteration.
C29_Witness ==
  /\ pc = "done" /\ strategy = "direct" /\ result.kind = "path"
  /\ Len(pickup_points) = 2
  /\ search.remaining = <<>>
  /\ Len(search.path) >= 4

\* ------------------------------------------------------------------------
\* C30.  However concurrent save_product requests interleave, the products
\* collection never holds two documents with the same product_id: a request
\* for a product_id that is already stored is answered 409 and inserts
\* nothing.
\* ------------------------------------------------------------------------
\* No product_id is stored twice.
NoTwoDocuments ==
  \A m, n \in DOMAIN products : products[m] = products[n] => m = n

\* An insert is made only for a product_id that is not stored.
InsertsOnlyNew ==
  \A i \in DOMAIN savers :
    (savers[i].pc = "insert" /\ savers'[i].pc = "done")
      => ~FindOne(products, savers[i].product_id)

\* Every request in flight is a save_product request.
OnlySaves == \A i \in DOMAIN savers : savers[i].kind = "save_product"

C30_NoDuplicateProductClaim ==
  /\ [](OnlySaves => NoTwoDocuments)
  /\ [][OnlySaves => InsertsOnlyNew]_vars

====
